---- MODULE Spec2Model ----
(***************************************************************************)
(* CommitKit: the commit classification and validation engine.             *)
(*                                                                         *)
(* Text is modelled as a sequence of one-character strings, so that the    *)
(* substring, suffix, case and slicing operations of the source are        *)
(* computed and not assumed.                                               *)
(***************************************************************************)
EXTENDS Integers, Sequences, FiniteSets, TLC

VARIABLES
    path,          \* categorizer: the path handed to categorize_file
    category,      \* categorizer: the ChangeCategory returned ("Unset" before the call)
    config,        \* rule engine: RuleEngine.config (the rules section of CkConfig)
    custom_rules,  \* rule engine: RuleEngine.custom_rules, in registration order
    message,       \* rule engine: the CommitMessage last validated (None before)
    result,        \* rule engine: the ValidationResult of that call (None before)
    text,          \* parser: the text handed to CommitMessage::parse
    parsed,        \* parser: the outcome of parse(text)
    formatted,     \* parser: format() of the parsed message (None before)
    reparsed,      \* parser: the outcome of parse(formatted)
    reformatted,   \* parser: format() of the reparsed message (None before)
    diff,          \* inference: the DiffInfo of the staged changes
    analysis,      \* inference: DiffAnalysis::from_diff(diff) (None before)
    scores,        \* inference: score_commit_types(diff, files) (None before)
    inferred,      \* inference: infer_type(diff, files), an Option<CommitType>
    ipc,           \* inference: the caller's position
    staged_files,  \* context: the paths of the staged files, in diff order
    marker_dirs,   \* context: the directories that hold a package marker file
    ck_config,     \* context: the CkConfig sections read outside the rule checks
    packages,      \* context: the Package list that detect_packages returned
    suggested_scope, \* context: infer_scope(staged_files, packages, config) (None before)
    resolver,      \* scope resolver: the ScopeResolver, as ScopeResolver::new left it
    resolved,      \* scope resolver: resolve(staged_files) (None before)
    multi_package, \* scope resolver: is_multi_package(staged_files) (None before)
    warnings,      \* warnings: generate_warnings(diff, files, packages, config) (None before)
    branch,        \* branch rules: what git::get_branch_name returns
    branch_rules,  \* branch rules: the results of the get_branch_rules calls so far
    cpc,           \* context: the caller's position
    git_commits,   \* check: the (id, message) pairs the repository returns for the target
    check_call,    \* check: the flags and settings that run_check reads
    check_results, \* check: the outcome of check_range or check_commit (None before)
    exit_status,   \* check: what run_check returned (None before)
    call_messages, \* validation calls: the message each concurrent caller passes
    calls,         \* validation calls: the local state of each validate call
    given,         \* validation calls: the engine and the messages as the callers built them
    hook_file,     \* hooks: the content of the file at the hook path (None when missing)
    backup_file,   \* hooks: the content of the file at <hook>.backup (None when missing)
    dir_start,     \* hooks: both files as they were before the first operation
    dir_before,    \* hooks: both files as they were before the last operation
    hook_outcome   \* hooks: the last operation and what it returned (None before)

catVars == <<path, category>>
ruleVars == <<config, custom_rules, message, result>>
parseVars == <<text, parsed, formatted, reparsed, reformatted>>
inferVars == <<diff, analysis, scores, inferred, ipc>>
ctxVars == <<staged_files, marker_dirs, ck_config, packages, suggested_scope, resolver,
             resolved, multi_package, warnings, branch, branch_rules, cpc>>
cmdVars == <<git_commits, check_call, check_results, exit_status, call_messages, calls, given,
             hook_file, backup_file, dir_start, dir_before, hook_outcome>>
vars == <<path, category, config, custom_rules, message, result,
          text, parsed, formatted, reparsed, reformatted,
          diff, analysis, scores, inferred, ipc,
          staged_files, marker_dirs, ck_config, packages, suggested_scope, resolver,
          resolved, multi_package, warnings, branch, branch_rules, cpc,
          git_commits, check_call, check_results, exit_status, call_messages, calls, given,
          hook_file, backup_file, dir_start, dir_before, hook_outcome>>

\* Option<T>: None is the empty tuple, Some(x) the one-element tuple
None == <<>>
Some(x) == <<x>>
is_some(o) == Len(o) = 1
is_none(o) == Len(o) = 0
unwrap(o) == o[1]

(***************************************************************************)
(* Text primitives (Rust str methods used by the source).                  *)
(***************************************************************************)
UpperChars == <<"A", "B", "C", "D", "E", "F", "G", "H", "I", "J", "K", "L", "M", "N", "O", "P", "Q", "R", "S", "T", "U", "V", "W", "X", "Y", "Z">>
LowerChars == <<"a", "b", "c", "d", "e", "f", "g", "h", "i", "j", "k", "l", "m", "n", "o", "p", "q", "r", "s", "t", "u", "v", "w", "x", "y", "z">>
Digits == <<"0", "1", "2", "3", "4", "5", "6", "7", "8", "9">>
Whitespace == {" ", "\n", "\t"}

Range(s) == {s[i] : i \in 1..Len(s)}

\* char::to_lowercase on the letters of the model's alphabet
LowerChar(c) ==
    IF \E i \in 1..Len(UpperChars) : UpperChars[i] = c
    THEN LowerChars[CHOOSE i \in 1..Len(UpperChars) : UpperChars[i] = c]
    ELSE c

\* str::to_lowercase
to_lowercase(s) == [i \in 1..Len(s) |-> LowerChar(s[i])]

\* char::is_uppercase
is_uppercase(c) == c \in Range(UpperChars)

\* the pattern pat occurs in s starting at index i
MatchAt(s, pat, i) ==
    /\ i >= 1
    /\ i + Len(pat) - 1 <= Len(s)
    /\ \A k \in 1..Len(pat) : s[i + k - 1] = pat[k]

\* str::contains
contains(s, pat) == \E i \in 1..(Len(s) + 1) : MatchAt(s, pat, i)

\* str::ends_with
ends_with(s, pat) == MatchAt(s, pat, Len(s) - Len(pat) + 1)

\* str::find for a pattern: the first index where pat occurs, 0 for None
find(s, pat) ==
    IF contains(s, pat)
    THEN CHOOSE i \in 1..(Len(s) + 1) :
            MatchAt(s, pat, i) /\ \A j \in 1..(i - 1) : ~MatchAt(s, pat, j)
    ELSE 0

\* the last index of character c in s, 0 when absent
rfind(s, c) ==
    IF c \in Range(s)
    THEN CHOOSE i \in 1..Len(s) : s[i] = c /\ \A j \in (i + 1)..Len(s) : s[j] # c
    ELSE 0

\* s[from..to], empty when from > to
Slice(s, from, to) == IF from > to THEN <<>> ELSE SubSeq(s, from, to)

(***************************************************************************)
(* Diff categorizer: src/analysis/diff.rs                                  *)
(***************************************************************************)
ChangeCategory ==
    {"NewFiles", "DeletedFiles", "Tests", "Documentation", "Configuration",
     "Source", "Build", "Assets"}

\* Path::file_name: the final component of a path
file_name(p) == Slice(p, rfind(p, "/") + 1, Len(p))

\* Path::extension: the text after the last '.' of the file name; none ("")
\* when the file name has no '.' or only a leading one
extension(p) ==
    LET name == file_name(p)
        dot == rfind(name, ".")
    IN  IF dot <= 1 THEN <<>> ELSE Slice(name, dot + 1, Len(name))

IsDocumentation(path_str, ext) ==
    \/ contains(path_str, <<"d", "o", "c">>)
    \/ contains(path_str, <<"r", "e", "a", "d", "m", "e">>)
    \/ contains(path_str, <<"c", "h", "a", "n", "g", "e", "l", "o", "g">>)
    \/ ext = <<"m", "d">>
    \/ ext = <<"r", "s", "t">>
    \/ ext = <<"t", "x", "t">>

IsTests(path_str) ==
    \/ contains(path_str, <<"t", "e", "s", "t">>)
    \/ contains(path_str, <<"s", "p", "e", "c">>)
    \/ ends_with(path_str, <<"_", "t", "e", "s", "t", ".", "g", "o">>)
    \/ ends_with(path_str, <<"_", "t", "e", "s", "t", ".", "r", "s">>)
    \/ ends_with(path_str, <<".", "t", "e", "s", "t", ".", "j", "s">>)
    \/ ends_with(path_str, <<".", "t", "e", "s", "t", ".", "t", "s">>)
    \/ ends_with(path_str, <<".", "s", "p", "e", "c", ".", "j", "s">>)
    \/ ends_with(path_str, <<".", "s", "p", "e", "c", ".", "t", "s">>)

IsBuild(path_str) ==
    \/ contains(path_str, <<".", "g", "i", "t", "h", "u", "b">>)
    \/ contains(path_str, <<"g", "i", "t", "l", "a", "b", "-", "c", "i">>)
    \/ contains(path_str, <<"j", "e", "n", "k", "i", "n", "s", "f", "i", "l", "e">>)
    \/ contains(path_str, <<"m", "a", "k", "e", "f", "i", "l", "e">>)
    \/ contains(path_str, <<"d", "o", "c", "k", "e", "r", "f", "i", "l", "e">>)
    \/ contains(path_str, <<"d", "o", "c", "k", "e", "r", "-", "c", "o", "m", "p", "o", "s", "e">>)
    \/ ends_with(path_str, <<".", "c", "m", "a", "k", "e">>)

IsConfiguration(path_str) ==
    \/ contains(path_str, <<"c", "o", "n", "f", "i", "g">>)
    \/ ends_with(path_str, <<".", "t", "o", "m", "l">>)
    \/ ends_with(path_str, <<".", "y", "a", "m", "l">>)
    \/ ends_with(path_str, <<".", "y", "m", "l">>)
    \/ ends_with(path_str, <<".", "j", "s", "o", "n">>)
    \/ ends_with(path_str, <<".", "i", "n", "i">>)
    \/ ends_with(path_str, <<".", "e", "n", "v">>)
    \/ contains(path_str, <<"c", "a", "r", "g", "o", ".", "t", "o", "m", "l">>)
    \/ contains(path_str, <<"p", "a", "c", "k", "a", "g", "e", ".", "j", "s", "o", "n">>)
    \/ contains(path_str, <<"g", "o", ".", "m", "o", "d">>)

AssetExtensions ==
    {<<"p", "n", "g">>, <<"j", "p", "g">>, <<"j", "p", "e", "g">>, <<"g", "i", "f">>, <<"s", "v", "g">>, <<"i", "c", "o">>, <<"w", "e", "b", "p">>, <<"m", "p", "4">>, <<"m", "p", "3">>,
     <<"w", "a", "v">>, <<"p", "d", "f">>}

IsAssets(ext) == ext \in AssetExtensions

categorize_file_tests_first(p) ==
    LET path_str == to_lowercase(p)
        ext == extension(p)
    IN  IF IsTests(path_str) THEN "Tests"
        ELSE IF IsDocumentation(path_str, ext) THEN "Documentation"
        ELSE IF IsBuild(path_str) THEN "Build"
        ELSE IF IsConfiguration(path_str) THEN "Configuration"
        ELSE IF IsAssets(ext) THEN "Assets"
        ELSE "Source"

categorize_file(p) ==
    LET path_str == to_lowercase(p)
        ext == extension(p)
    IN  IF IsDocumentation(path_str, ext) THEN "Documentation"
        ELSE IF IsTests(path_str) THEN "Tests"
        ELSE IF IsBuild(path_str) THEN "Build"
        ELSE IF IsConfiguration(path_str) THEN "Configuration"
        ELSE IF IsAssets(ext) THEN "Assets"
        ELSE "Source"

(***************************************************************************)
(* Inputs of the categorizer: paths assembled from directory, stem and     *)
(* extension parts that carry the markers of every category, alone and in  *)
(* combination.                                                            *)
(***************************************************************************)
PathDirs ==
    {<<>>, <<"d", "o", "c", "s", "/">>, <<"t", "e", "s", "t", "s", "/">>, <<"s", "r", "c", "/">>, <<".", "g", "i", "t", "h", "u", "b", "/", "w", "o", "r", "k", "f", "l", "o", "w", "s", "/">>, <<"c", "o", "n", "f", "i", "g", "/">>,
     <<"a", "s", "s", "e", "t", "s", "/">>, <<"S", "R", "C", "/">>}
PathStems ==
    {<<"m", "a", "i", "n">>, <<"t", "e", "s", "t", "-", "p", "l", "a", "n">>, <<"R", "E", "A", "D", "M", "E">>, <<"D", "o", "c", "k", "e", "r", "f", "i", "l", "e">>, <<"M", "a", "k", "e", "f", "i", "l", "e">>, <<"l", "o", "g", "o">>,
     <<"s", "e", "t", "t", "i", "n", "g", "s">>, <<"l", "a", "t", "e", "s", "t">>, <<"c", "i">>, <<".", "e", "n", "v">>, <<"G", "u", "i", "d", "e">>}
PathExts ==
    {<<>>, <<".", "m", "d">>, <<".", "M", "D">>, <<".", "r", "s">>, <<".", "t", "o", "m", "l">>, <<".", "p", "n", "g">>, <<".", "P", "N", "G">>, <<".", "y", "m", "l">>,
     <<".", "s", "p", "e", "c", ".", "t", "s">>, <<".", "c", "m", "a", "k", "e">>}
Paths == {d \o s \o e : d \in PathDirs, s \in PathStems, e \in PathExts}

CatIdle == path = <<>> /\ category = "Unset"

Categorize ==
    /\ category = "Unset"
    /\ category' = categorize_file(path)
    /\ UNCHANGED <<path, ruleVars, parseVars, inferVars, ctxVars, cmdVars>>

NextCategorize == Categorize

\* the categories in their first-match order, Source being the fallback
CategoryOrder ==
    <<"Documentation", "Tests", "Build", "Configuration", "Assets", "Source">>

\* the markers of category c match path p
Marks(c, p) ==
    CASE c = "Documentation" -> IsDocumentation(to_lowercase(p), extension(p))
      [] c = "Tests" -> IsTests(to_lowercase(p))
      [] c = "Build" -> IsBuild(to_lowercase(p))
      [] c = "Configuration" -> IsConfiguration(to_lowercase(p))
      [] c = "Assets" -> IsAssets(extension(p))
      [] OTHER -> TRUE

\* C1: categorize_file returns exactly one category, the earliest in the order
\* Documentation, Tests, Build, Configuration, Assets, Source whose markers the
\* path matches; docs/test-plan.md is Documentation.
C1_FirstMatchOrder ==
    category # "Unset" =>
        /\ \E i \in 1..Len(CategoryOrder) :
              /\ category = CategoryOrder[i]
              /\ Marks(CategoryOrder[i], path)
              /\ \A j \in 1..(i - 1) : ~Marks(CategoryOrder[j], path)
        /\ (path = <<"d", "o", "c", "s", "/", "t", "e", "s", "t", "-", "p", "l", "a", "n", ".", "m", "d">> => category = "Documentation")

\* a categorized path that carries both a documentation and a test marker
C1_Witness ==
    /\ category = "Documentation"
    /\ path = <<"d", "o", "c", "s", "/", "t", "e", "s", "t", "-", "p", "l", "a", "n", ".", "m", "d">>
    /\ Marks("Tests", path)

(***************************************************************************)
(* Commit types: src/config/schema.rs                                      *)
(***************************************************************************)
CommitTypes ==
    {"Feat", "Fix", "Docs", "Style", "Refactor", "Perf", "Test", "Chore",
     "Revert", "Build", "Ci", "Wip"}

\* CommitType::as_str
as_str(t) ==
    CASE t = "Feat" -> <<"f", "e", "a", "t">>
      [] t = "Fix" -> <<"f", "i", "x">>
      [] t = "Docs" -> <<"d", "o", "c", "s">>
      [] t = "Style" -> <<"s", "t", "y", "l", "e">>
      [] t = "Refactor" -> <<"r", "e", "f", "a", "c", "t", "o", "r">>
      [] t = "Perf" -> <<"p", "e", "r", "f">>
      [] t = "Test" -> <<"t", "e", "s", "t">>
      [] t = "Chore" -> <<"c", "h", "o", "r", "e">>
      [] t = "Revert" -> <<"r", "e", "v", "e", "r", "t">>
      [] t = "Build" -> <<"b", "u", "i", "l", "d">>
      [] t = "Ci" -> <<"c", "i">>
      [] t = "Wip" -> <<"w", "i", "p">>

\* <CommitType as FromStr>::from_str: Some(type), or None for Err(())
from_str(s) ==
    LET l == to_lowercase(s)
    IN  CASE l = <<"f", "e", "a", "t">> \/ l = <<"f", "e", "a", "t", "u", "r", "e">> -> Some("Feat")
          [] l = <<"f", "i", "x">> \/ l = <<"b", "u", "g", "f", "i", "x">> -> Some("Fix")
          [] l = <<"d", "o", "c", "s">> \/ l = <<"d", "o", "c">> -> Some("Docs")
          [] l = <<"s", "t", "y", "l", "e">> -> Some("Style")
          [] l = <<"r", "e", "f", "a", "c", "t", "o", "r">> -> Some("Refactor")
          [] l = <<"p", "e", "r", "f">> \/ l = <<"p", "e", "r", "f", "o", "r", "m", "a", "n", "c", "e">> -> Some("Perf")
          [] l = <<"t", "e", "s", "t">> \/ l = <<"t", "e", "s", "t", "s">> -> Some("Test")
          [] l = <<"c", "h", "o", "r", "e">> -> Some("Chore")
          [] l = <<"r", "e", "v", "e", "r", "t">> -> Some("Revert")
          [] l = <<"b", "u", "i", "l", "d">> -> Some("Build")
          [] l = <<"c", "i">> -> Some("Ci")
          [] l = <<"w", "i", "p">> -> Some("Wip")
          [] OTHER -> None

(***************************************************************************)
(* Commit message: src/commit/message.rs                                   *)
(***************************************************************************)
\* the characters of the model's alphabet that take two bytes in UTF-8
TwoByteChars == {"é"}

\* str::trim_start
RECURSIVE trim_start(_)
trim_start(s) ==
    IF s # <<>> /\ Head(s) \in Whitespace THEN trim_start(Tail(s)) ELSE s

\* str::trim_end
RECURSIVE trim_end(_)
trim_end(s) ==
    IF s # <<>> /\ s[Len(s)] \in Whitespace
    THEN trim_end(SubSeq(s, 1, Len(s) - 1))
    ELSE s

\* str::trim
trim(s) == trim_end(trim_start(s))

\* str::split('\n')
RECURSIVE split_newline(_)
split_newline(s) ==
    LET i == find(s, <<"\n">>)
    IN  IF i = 0 THEN <<s>>
        ELSE <<Slice(s, 1, i - 1)>> \o split_newline(Slice(s, i + 1, Len(s)))

\* str::lines: the lines without their terminators, a final empty line dropped
lines(s) ==
    LET parts == split_newline(s)
    IN  IF parts[Len(parts)] = <<>> THEN SubSeq(parts, 1, Len(parts) - 1) ELSE parts

\* [&str]::join
RECURSIVE join(_, _)
join(parts, sep) ==
    IF parts = <<>> THEN <<>>
    ELSE IF Len(parts) = 1 THEN parts[1]
    ELSE parts[1] \o sep \o join(Tail(parts), sep)

\* Iterator::skip(n) on a sequence
skip(parts, n) == Slice(parts, n + 1, Len(parts))

\* the regex class \w
IsWordChar(c) ==
    c \in Range(LowerChars) \cup Range(UpperChars) \cup Range(Digits) \cup {"_"}
          \cup TwoByteChars

\* the length of the longest prefix of s made of \w characters
word_prefix_len(s) ==
    LET ks == {k \in 0..Len(s) : \A i \in 1..k : IsWordChar(s[i])}
    IN  CHOOSE k \in ks : \A j \in ks : j <= k

\* the first index >= from at which character c occurs in s, 0 when none
find_from(s, c, from) ==
    LET is == {i \in from..Len(s) : s[i] = c}
    IN  IF is = {} THEN 0 ELSE CHOOSE i \in is : \A j \in is : i <= j

\* CONVENTIONAL_REGEX.captures: the leftmost-first match of
\*   ^(\w+)(?:\(([^)]+)\))?(!)?: (.+?)(?:\n\n([\s\S]*?))?(?:\n\n([\s\S]*))?$
\* None when the text does not match.  \w+ must take the whole word prefix
\* (what follows it is '(' , '!' or ':'); [^)]+ runs to the first ')';
\* the lazy subject cannot cross a newline, so it ends at the end of the
\* text or right before a blank line; the lazy body ends at the first
\* later "\n\n", after which the footer takes the rest.
captures(m) ==
    LET k == word_prefix_len(m)
        close == IF k + 1 <= Len(m) /\ m[k + 1] = "(" THEN find_from(m, ")", k + 2) ELSE 0
        has_scope == close > k + 2
        after_scope == IF has_scope THEN close + 1 ELSE k + 1
        has_bang == after_scope <= Len(m) /\ m[after_scope] = "!"
        colon == IF has_bang THEN after_scope + 1 ELSE after_scope
        s == colon + 2
        nl == find_from(m, "\n", s)
        subject_end == IF nl = 0 THEN Len(m) ELSE nl - 1
        X == Slice(m, nl + 2, Len(m))
        b == find(X, <<"\n", "\n">>)
    IN  IF /\ k >= 1
           /\ MatchAt(m, <<":", " ">>, colon)
           /\ subject_end >= s
           /\ (nl # 0 => MatchAt(m, <<"\n", "\n">>, nl))
        THEN Some([type |-> SubSeq(m, 1, k),
                   scope |-> IF has_scope THEN Some(SubSeq(m, k + 2, close - 1)) ELSE None,
                   breaking |-> has_bang,
                   subject |-> SubSeq(m, s, subject_end),
                   body |-> IF nl = 0 THEN None
                            ELSE IF b = 0 THEN Some(X)
                            ELSE Some(Slice(X, 1, b - 1)),
                   footer |-> IF nl = 0 \/ b = 0 THEN None
                              ELSE Some(Slice(X, b + 2, Len(X)))])
        ELSE None

\* Result<CommitMessage>: Ok(message), Err(kind), or the panic of an
\* out-of-order slice (the call does not return)
Ok(msg) == [tag |-> "Ok", msg |-> msg, kind |-> "none"]
Err(kind) == [tag |-> "Err", msg |-> None, kind |-> kind]
Panicked == [tag |-> "Panic", msg |-> None, kind |-> "slice index starts after its end"]

CommitMessage(t, scope, subject, body, footer, is_breaking) ==
    [commit_type |-> t, scope |-> scope, subject |-> subject, body |-> body,
     footer |-> footer, is_breaking |-> is_breaking]

\* Option::map(trim).filter(non-empty) of a capture
trimmed_capture(o) ==
    IF is_some(o) /\ trim(unwrap(o)) # <<>> THEN Some(trim(unwrap(o))) ELSE None

\* CommitMessage::parse, the branch taken when the regex matches (lines 88-121)
parse_conventional(c) ==
    LET t == from_str(c.type)
        footer == trimmed_capture(c.footer)
    IN  IF is_none(t) THEN Err("ParseFailed")
        ELSE Ok(CommitMessage(unwrap(t), c.scope, c.subject, trimmed_capture(c.body),
                              footer,
                              c.breaking \/ (is_some(footer)
                                             /\ contains(unwrap(footer), <<"B", "R", "E", "A", "K", "I", "N", "G", " ", "C", "H", "A", "N", "G", "E">>))))

\* str::strip_suffix('!') applied to the type text: <<rest, stripped>>
strip_bang(s) ==
    IF ends_with(s, <<"!">>) THEN <<SubSeq(s, 1, Len(s) - 1), TRUE>> ELSE <<s, FALSE>>

\* CommitMessage::parse, the fallback branch (lines 123-176)
parse_simple(m) ==
    LET first_line == lines(m)[1]
        colon == find(first_line, <<":">>)
        type_part == trim(Slice(first_line, 1, colon - 1))
        subject == trim(Slice(first_line, colon + 1, Len(first_line)))
        scoped == "(" \in Range(type_part) /\ ")" \in Range(type_part)
        open == find(type_part, <<"(">>)
        close == find(type_part, <<")">>)
        type_str == IF scoped THEN Slice(type_part, 1, open - 1) ELSE type_part
        scope == IF scoped THEN Some(Slice(type_part, open + 1, close - 1)) ELSE None
        stripped == strip_bang(type_str)
        t == from_str(stripped[1])
        body == join(skip(lines(m), 2), <<"\n">>)
    IN  IF colon = 0 THEN Err("InvalidConventionalFormat")
        ELSE IF scoped /\ close < open THEN Panicked
        ELSE IF is_none(t) THEN Err("InvalidConventionalFormat")
        ELSE Ok(CommitMessage(unwrap(t), scope, subject,
                              IF body = <<>> THEN None ELSE Some(body),
                              None, stripped[2]))

\* CommitMessage::parse
parse(input) ==
    LET m == trim(input)
    IN  IF m = <<>> THEN Err("EmptyMessage")
        ELSE IF is_some(captures(m)) THEN parse_conventional(unwrap(captures(m)))
        ELSE parse_simple(m)

\* CommitMessage::format
format(msg) ==
    as_str(msg.commit_type)
    \o (IF is_some(msg.scope) THEN <<"(">> \o unwrap(msg.scope) \o <<")">> ELSE <<>>)
    \o (IF msg.is_breaking THEN <<"!">> ELSE <<>>)
    \o <<":", " ">> \o msg.subject
    \o (IF is_some(msg.body) THEN <<"\n", "\n">> \o unwrap(msg.body) ELSE <<>>)
    \o (IF is_some(msg.footer) THEN <<"\n", "\n">> \o unwrap(msg.footer) ELSE <<>>)

(***************************************************************************)
(* Built-in rules: src/rules/builtin.rs                                    *)
(***************************************************************************)
\* str::len: the length in bytes of the UTF-8 encoding
len(s) == Len(s) + Cardinality({i \in 1..Len(s) : s[i] \in TwoByteChars})

\* a ValidationIssue; the message and suggestion texts are not modelled
ValidationIssue(code, is_error) == [code |-> code, is_error |-> is_error, line |-> 1]

check_max_subject_length_at_least(m, cfg) ==
    IF len(m.subject) >= cfg.max_subject_length
    THEN Some(ValidationIssue("subject-max-length", TRUE))
    ELSE None

check_max_subject_length(m, cfg) ==
    IF len(m.subject) > cfg.max_subject_length
    THEN Some(ValidationIssue("subject-max-length", TRUE))
    ELSE None

check_min_subject_length(m, cfg) ==
    IF len(m.subject) < cfg.min_subject_length
    THEN Some(ValidationIssue("subject-min-length", TRUE))
    ELSE None

check_allowed_types(m, cfg) ==
    IF /\ cfg.allowed_types # <<>>
       /\ ~\E i \in 1..Len(cfg.allowed_types) : cfg.allowed_types[i] = as_str(m.commit_type)
    THEN Some(ValidationIssue("type-not-allowed", TRUE))
    ELSE None

check_forbidden_types_unless_disallowed(m, cfg) ==
    IF /\ \E i \in 1..Len(cfg.forbidden_types) : cfg.forbidden_types[i] = as_str(m.commit_type)
       /\ is_none(check_allowed_types(m, cfg))
    THEN Some(ValidationIssue("type-forbidden", TRUE))
    ELSE None

check_forbidden_types(m, cfg) ==
    IF \E i \in 1..Len(cfg.forbidden_types) : cfg.forbidden_types[i] = as_str(m.commit_type)
    THEN Some(ValidationIssue("type-forbidden", TRUE))
    ELSE None

check_require_scope(m, cfg) ==
    IF cfg.require_scope /\ is_none(m.scope)
    THEN Some(ValidationIssue("scope-required", TRUE))
    ELSE None

check_allowed_scopes(m, cfg) ==
    IF /\ is_some(m.scope)
       /\ cfg.scope_allowed # <<>>
       /\ ~\E i \in 1..Len(cfg.scope_allowed) : cfg.scope_allowed[i] = unwrap(m.scope)
    THEN Some(ValidationIssue("scope-not-allowed", TRUE))
    ELSE None

check_require_body(m, cfg) ==
    IF cfg.require_body /\ is_none(m.body)
    THEN Some(ValidationIssue("body-required", TRUE))
    ELSE None

\* str::split_whitespace().next(): the first maximal run of non-whitespace
\* characters, None when there is none
first_word(s) ==
    LET starts == {i \in 1..Len(s) : s[i] \notin Whitespace}
    IN  IF starts = {} THEN None
        ELSE LET b == CHOOSE i \in starts : \A j \in starts : i <= j
                 stops == {i \in b..Len(s) : i = Len(s) \/ s[i + 1] \in Whitespace}
                 e == CHOOSE i \in stops : \A j \in stops : i <= j
             IN  Some(SubSeq(s, b, e))

non_imperative ==
    {<<"a", "d", "d", "e", "d">>, <<"a", "d", "d", "i", "n", "g">>, <<"a", "d", "d", "s">>, <<"f", "i", "x", "e", "d">>, <<"f", "i", "x", "i", "n", "g">>, <<"f", "i", "x", "e", "s">>, <<"u", "p", "d", "a", "t", "e", "d">>,
     <<"u", "p", "d", "a", "t", "i", "n", "g">>, <<"u", "p", "d", "a", "t", "e", "s">>, <<"r", "e", "m", "o", "v", "e", "d">>, <<"r", "e", "m", "o", "v", "i", "n", "g">>, <<"r", "e", "m", "o", "v", "e", "s">>, <<"c", "h", "a", "n", "g", "e", "d">>,
     <<"c", "h", "a", "n", "g", "i", "n", "g">>, <<"c", "h", "a", "n", "g", "e", "s">>, <<"i", "m", "p", "l", "e", "m", "e", "n", "t", "e", "d">>, <<"i", "m", "p", "l", "e", "m", "e", "n", "t", "i", "n", "g">>, <<"i", "m", "p", "l", "e", "m", "e", "n", "t", "s">>,
     <<"c", "r", "e", "a", "t", "e", "d">>, <<"c", "r", "e", "a", "t", "i", "n", "g">>, <<"c", "r", "e", "a", "t", "e", "s">>}

check_imperative_mood(m) ==
    LET w == first_word(m.subject)
    IN  IF is_some(w) /\ to_lowercase(unwrap(w)) \in non_imperative
        THEN Some(ValidationIssue("subject-imperative", FALSE))
        ELSE None

check_subject_case(m) ==
    IF m.subject # <<>> /\ is_uppercase(m.subject[1])
    THEN Some(ValidationIssue("subject-case", FALSE))
    ELSE None

check_subject_trailing_period(m) ==
    IF ends_with(m.subject, <<".">>)
    THEN Some(ValidationIssue("subject-trailing-period", FALSE))
    ELSE None

\* the concatenation of a sequence of options: the issues pushed, in order
RECURSIVE Pushed(_)
Pushed(opts) == IF opts = <<>> THEN <<>> ELSE Head(opts) \o Pushed(Tail(opts))

apply_builtin_rules_format_first(m, cfg) ==
    Pushed(<<check_imperative_mood(m),
             check_subject_case(m),
             check_subject_trailing_period(m),
             check_min_subject_length(m, cfg),
             check_max_subject_length(m, cfg),
             check_forbidden_types(m, cfg),
             check_allowed_types(m, cfg),
             check_allowed_scopes(m, cfg),
             check_require_scope(m, cfg),
             check_require_body(m, cfg)>>)

apply_builtin_rules(m, cfg) ==
    Pushed(<<check_max_subject_length(m, cfg),
             check_min_subject_length(m, cfg),
             check_allowed_types(m, cfg),
             check_forbidden_types(m, cfg),
             check_require_scope(m, cfg),
             check_allowed_scopes(m, cfg),
             check_require_body(m, cfg),
             check_imperative_mood(m),
             check_subject_case(m),
             check_subject_trailing_period(m)>>)

(***************************************************************************)
(* Rule engine: src/rules/engine.rs, src/rules/validator.rs                *)
(***************************************************************************)
\* Rule::check of a registered rule object.  The repository ships no
\* implementation of the trait; the rule objects of the model are the three
\* below, each identified by its name.
check(rule, m, cfg) ==
    CASE rule.name = "footer-required" ->
            IF is_none(m.footer) THEN Some(ValidationIssue(rule.name, TRUE)) ELSE None
      [] rule.name = "body-advised" ->
            IF is_none(m.body) THEN Some(ValidationIssue(rule.name, FALSE)) ELSE None
      [] rule.name = "no-breaking" ->
            IF m.is_breaking THEN Some(ValidationIssue(rule.name, TRUE)) ELSE None

RulePool == {[name |-> n] : n \in {"footer-required", "body-advised", "no-breaking"}}

\* ValidationResult::new
ValidationResult_new(msg_text) ==
    [message |-> msg_text, commit_sha |-> None, errors |-> <<>>, warnings |-> <<>>]

is_valid_no_issues(r) == r.errors = <<>> /\ r.warnings = <<>>

\* ValidationResult::is_valid
is_valid(r) == r.errors = <<>>

\* the loop bodies of validate: route one issue by its is_error flag
push_issue(r, issue) ==
    IF issue.is_error
    THEN [r EXCEPT !.errors = Append(@, issue)]
    ELSE [r EXCEPT !.warnings = Append(@, issue)]

RECURSIVE push_issues(_, _)
push_issues(r, issues) ==
    IF issues = <<>> THEN r
    ELSE push_issues(push_issue(r, Head(issues)), Tail(issues))

\* the issues of the custom rules, in registration order
RECURSIVE custom_issues(_, _, _)
custom_issues(rules, m, cfg) ==
    IF rules = <<>> THEN <<>>
    ELSE check(Head(rules), m, cfg) \o custom_issues(Tail(rules), m, cfg)


\* RuleEngine::validate
validate(engine_config, rules, m) ==
    push_issues(push_issues(ValidationResult_new(format(m)),
                            apply_builtin_rules(m, engine_config)),
                custom_issues(rules, m, engine_config))

(***************************************************************************)
(* Inputs of the rule engine.                                              *)
(***************************************************************************)
MaxCustomRules == 2

\* RulesConfig::default: allowed_types and forbidden_types
DefaultAllowedTypes ==
    <<<<"f", "e", "a", "t">>, <<"f", "i", "x">>, <<"d", "o", "c", "s">>, <<"s", "t", "y", "l", "e">>, <<"r", "e", "f", "a", "c", "t", "o", "r">>, <<"p", "e", "r", "f">>, <<"t", "e", "s", "t">>, <<"c", "h", "o", "r", "e">>,
      <<"r", "e", "v", "e", "r", "t">>, <<"b", "u", "i", "l", "d">>, <<"c", "i">>>>
DefaultForbiddenTypes == <<<<"w", "i", "p">>>>
DefaultMaxSubjectLength == 72
DefaultMinSubjectLength == 10

RulesConfig(max, min, require_scope, require_body, allowed, forbidden, scopes) ==
    [max_subject_length |-> max, min_subject_length |-> min,
     require_scope |-> require_scope, require_body |-> require_body,
     allowed_types |-> allowed, forbidden_types |-> forbidden,
     scope_allowed |-> scopes]

\* RulesConfig::default
DefaultConfig ==
    RulesConfig(DefaultMaxSubjectLength, DefaultMinSubjectLength, FALSE, FALSE,
                DefaultAllowedTypes, DefaultForbiddenTypes, <<>>)

SubjectLimits == {<<DefaultMaxSubjectLength, DefaultMinSubjectLength>>, <<11, 2>>, <<8, 9>>}

\* the switches of a configuration: require_scope, require_body, scope.allowed
ConfigSwitches ==
    {<<FALSE, FALSE, <<>>>>, <<TRUE, FALSE, <<<<"c", "o", "r", "e">>>>>>, <<TRUE, TRUE, <<>>>>}

Configs ==
    {RulesConfig(l[1], l[2], sw[1], sw[2], al, fb, sw[3]) :
        l \in SubjectLimits, sw \in ConfigSwitches,
        al \in {<<>>, DefaultAllowedTypes, <<<<"f", "e", "a", "t">>, <<"f", "i", "x">>>>},
        fb \in {DefaultForbiddenTypes, <<<<"f", "i", "x">>, <<"w", "i", "p">>>>}}

Subjects ==
    {<<>>, <<"a", "b">>, <<"a", "d", "d", "e", "d", " ", "s", "t", "u", "f", "f">>, <<"A", "d", "d", " ", "f", "e", "a", "t", "u", "r", "e", ".">>, <<"a", "d", "d", " ", "n", "e", "w", " ", "f", "e", "a", "t", "u", "r", "e">>, <<"f", "i", "x", " ", "c", "a", "f", "é">>,
     [i \in 1..100 |-> "a"]}

\* body and is_breaking of the messages validated
MessageBodies == {<<None, FALSE>>, <<Some(<<"d", "e", "t", "a", "i", "l", "s">>), TRUE>>}

Messages ==
    {CommitMessage(t, sc, sj, b[1], None, b[2]) :
        t \in {"Feat", "Fix", "Wip"}, sc \in {None, Some(<<"c", "o", "r", "e">>), Some(<<"u", "i">>)},
        sj \in Subjects, b \in MessageBodies}

RuleIdle ==
    /\ config = DefaultConfig
    /\ custom_rules = <<>>
    /\ message = None
    /\ result = None

\* RuleEngine::add_rule
add_rule(r) ==
    /\ result = None
    /\ Len(custom_rules) < MaxCustomRules
    /\ \A i \in 1..Len(custom_rules) : custom_rules[i] # r
    /\ custom_rules' = Append(custom_rules, r)
    /\ UNCHANGED <<config, message, result, catVars, parseVars, inferVars, ctxVars, cmdVars>>

\* a call of RuleEngine::validate
Validate(m) ==
    /\ result = None
    /\ message' = Some(m)
    /\ result' = Some(validate(config, custom_rules, m))
    /\ UNCHANGED <<config, custom_rules, catVars, parseVars, inferVars, ctxVars, cmdVars>>

\* the caller drops the result; the engine is ready for the next call
Return ==
    /\ result # None
    /\ message' = None
    /\ result' = None
    /\ UNCHANGED <<config, custom_rules, catVars, parseVars, inferVars, ctxVars, cmdVars>>

NextRules ==
    \/ \E r \in RulePool : add_rule(r)
    \/ \E m \in Messages : Validate(m)
    \/ Return

(***************************************************************************)
(* Properties of the rule engine.                                          *)
(***************************************************************************)
\* the issues every rule returns for the validated message, in any order
IssuesRaised ==
    Range(apply_builtin_rules(unwrap(message), config))
        \cup Range(custom_issues(custom_rules, unwrap(message), config))

HasError(code) ==
    \E i \in 1..Len(unwrap(result).errors) : unwrap(result).errors[i].code = code

\* C2: a result of validate is valid if and only if its errors list is empty,
\* that is if and only if no rule raised an issue flagged is_error; warnings
\* do not change the verdict.
C2_ValidIffNoErrors ==
    result # None =>
        /\ is_valid(unwrap(result)) <=> (Len(unwrap(result).errors) = 0)
        /\ is_valid(unwrap(result)) <=> (\A issue \in IssuesRaised : ~issue.is_error)

\* a valid result that carries warnings, a custom rule's among them
C2_Witness ==
    /\ result # None
    /\ is_valid(unwrap(result))
    /\ Len(unwrap(result).warnings) >= 2
    /\ \E i \in 1..Len(unwrap(result).warnings) :
          unwrap(result).warnings[i].code = "body-advised"

\* the codes of the built-in rules in the order of their evaluation
BuiltinOrder ==
    <<"subject-max-length", "subject-min-length", "type-not-allowed",
      "type-forbidden", "scope-required", "scope-not-allowed", "body-required",
      "subject-imperative", "subject-case", "subject-trailing-period">>

\* the place of an issue's rule in the evaluation order: built-in rules first,
\* then the custom rules in registration order
Rank(code) ==
    LET order == BuiltinOrder \o [i \in 1..Len(custom_rules) |-> custom_rules[i].name]
    IN  CHOOSE i \in 1..Len(order) : order[i] = code

Ordered(issues) ==
    \A i, j \in 1..Len(issues) : i < j => Rank(issues[i].code) < Rank(issues[j].code)

\* C3: in the errors list and in the warnings list the issues follow the
\* evaluation order: the built-in rules in their fixed order, at most one issue
\* each, then the custom rules in registration order.
C3_EvaluationOrder ==
    result # None =>
        /\ Ordered(unwrap(result).errors)
        /\ Ordered(unwrap(result).warnings)
        /\ \A issue \in IssuesRaised :
              \E i \in 1..Len(BuiltinOrder) + Len(custom_rules) : Rank(issue.code) = i

\* errors of two built-in rules followed by a custom rule's error, and
\* warnings of two built-in rules followed by a custom rule's warning, with two
\* custom rules registered
C3_Witness ==
    /\ result # None
    /\ Len(custom_rules) = 2
    /\ Len(unwrap(result).errors) >= 3
    /\ unwrap(result).errors[Len(unwrap(result).errors)].code = "footer-required"
    /\ Len(unwrap(result).warnings) >= 3
    /\ unwrap(result).warnings[Len(unwrap(result).warnings)].code = "body-advised"

\* C4: subject-max-length is reported exactly when the subject is longer than
\* max_subject_length, subject-min-length exactly when it is shorter than
\* min_subject_length (length as String::len gives it); either makes the
\* result invalid.
C4_SubjectLength ==
    result # None =>
        LET m == unwrap(message)
        IN  /\ HasError("subject-max-length") <=> len(m.subject) > config.max_subject_length
            /\ HasError("subject-min-length") <=> len(m.subject) < config.min_subject_length
            /\ (HasError("subject-max-length") \/ HasError("subject-min-length"))
                  => ~is_valid(unwrap(result))
            /\ (config.max_subject_length = 72 /\ m.subject = [i \in 1..100 |-> "a"])
                  => HasError("subject-max-length")

\* the 100-character subject validated under the default limits
C4_Witness ==
    /\ result # None
    /\ config.max_subject_length = 72
    /\ unwrap(message).subject = [i \in 1..100 |-> "a"]
    /\ HasError("subject-max-length")
    /\ ~is_valid(unwrap(result))

\* the allow-list / forbid-list of the engine's configuration contains type t
Lists(list, t) == \E i \in 1..Len(list) : list[i] = as_str(t)

\* C5: type-not-allowed is reported exactly when the allow-list is non-empty
\* and lacks the type, type-forbidden exactly when the forbid-list holds the
\* type, independently; wip under the default lists yields both errors.
C5_TypeLists ==
    result # None =>
        LET m == unwrap(message)
        IN  /\ HasError("type-not-allowed") <=>
                  (config.allowed_types # <<>> /\ ~Lists(config.allowed_types, m.commit_type))
            /\ HasError("type-forbidden") <=> Lists(config.forbidden_types, m.commit_type)
            /\ (/\ m.commit_type = "Wip"
                /\ config.allowed_types = DefaultAllowedTypes
                /\ config.forbidden_types = DefaultForbiddenTypes)
                  => /\ HasError("type-not-allowed")
                     /\ HasError("type-forbidden")
                     /\ ~is_valid(unwrap(result))

\* wip validated under the default configuration: both errors
C5_Witness ==
    /\ result # None
    /\ config = DefaultConfig
    /\ unwrap(message).commit_type = "Wip"
    /\ HasError("type-not-allowed")
    /\ HasError("type-forbidden")

(***************************************************************************)
(* Inputs of the parser: texts assembled from a type, a scope form, a      *)
(* breaking mark before or after the scope, a separator, a subject and a   *)
(* tail of further lines; and texts with no ':' at all.                    *)
(***************************************************************************)
TextTypes == {<<"f", "e", "a", "t">>, <<"F", "I", "X">>, <<"f", "e", "a", "t", "u", "r", "e">>, <<"a", "d", "d", "e", "d">>}
TextScopes == {<<>>, <<"(", "c", "o", "r", "e", ")">>, <<"(", ")">>, <<")", "(">>, <<"(", "x">>, <<"(", "a", ")", "(", "b", ")">>}
TextBangs == {<<<<>>, <<>>>>, <<<<"!">>, <<>>>>, <<<<>>, <<"!">>>>}
TextSeparators == {<<":", " ">>, <<":">>}
TextSubjects == {<<>>, <<"a", "d", "d", " ", "x">>, <<"b", "r", "e", "a", "k", "i", "n", "g", " ", "c", "h", "a", "n", "g", "e">>}
TextTails ==
    {<<>>, <<"\n", "\n", "b", "o", "d", "y">>, <<"\n", "l", "2", "\n", " ", "l", "3">>, <<"\n", "\n", "b", "o", "d", "y", "\n", "\n", "B", "R", "E", "A", "K", "I", "N", "G", " ", "C", "H", "A", "N", "G", "E", ":", " ", "y">>,
     <<"\n", "\n", "\n", "\n", "R", "e", "f", "s", ":", " ", "1">>, <<"\n", "\n", " ", "b", " ", "\n", "\n", "f", "o", "o", "t">>}
Texts ==
    {t \o b[1] \o sc \o b[2] \o sep \o sj \o tl :
        t \in TextTypes, b \in TextBangs, sc \in TextScopes, sep \in TextSeparators,
        sj \in TextSubjects, tl \in TextTails}
    \cup {<<>>, <<" ", " ", "\n", " ">>, <<"a", "d", "d", "e", "d", " ", "s", "t", "u", "f", "f">>, <<"n", "o", "t", " ", "a", " ", "c", "o", "n", "v", "e", "n", "t", "i", "o", "n", "a", "l", " ", "c", "o", "m", "m", "i", "t">>}

Pending == [tag |-> "Pending", msg |-> None, kind |-> "none"]

ParseIdle ==
    /\ text = <<>>
    /\ parsed = Pending
    /\ formatted = None
    /\ reparsed = Pending
    /\ reformatted = None

\* CommitMessage::parse(text)
Parse ==
    /\ parsed = Pending
    /\ parsed' = parse(text)
    /\ UNCHANGED <<text, formatted, reparsed, reformatted, catVars, ruleVars, inferVars, ctxVars, cmdVars>>

\* format() of the parsed message
Format ==
    /\ parsed.tag = "Ok"
    /\ formatted = None
    /\ formatted' = Some(format(parsed.msg))
    /\ UNCHANGED <<text, parsed, reparsed, reformatted, catVars, ruleVars, inferVars, ctxVars, cmdVars>>

\* CommitMessage::parse of the formatted text
Reparse ==
    /\ is_some(formatted)
    /\ reparsed = Pending
    /\ reparsed' = parse(unwrap(formatted))
    /\ UNCHANGED <<text, parsed, formatted, reformatted, catVars, ruleVars, inferVars, ctxVars, cmdVars>>

\* format() of the reparsed message
Reformat ==
    /\ reparsed.tag = "Ok"
    /\ reformatted = None
    /\ reformatted' = Some(format(reparsed.msg))
    /\ UNCHANGED <<text, parsed, formatted, reparsed, catVars, ruleVars, inferVars, ctxVars, cmdVars>>

NextParse == Parse \/ Format \/ Reparse \/ Reformat

(***************************************************************************)
(* Properties of the parser.                                               *)
(***************************************************************************)
\* C6: parse returns a CommitMessage or a typed error for every text and never
\* panics: EmptyMessage for an empty or blank text, an error for "added stuff".
C6_ParseTotal ==
    /\ parsed.tag \in {"Pending", "Ok", "Err"}
    /\ reparsed.tag \in {"Pending", "Ok", "Err"}
    /\ (parsed # Pending /\ trim(text) = <<>>) => parsed = Err("EmptyMessage")
    /\ (parsed # Pending /\ text = <<"a", "d", "d", "e", "d", " ", "s", "t", "u", "f", "f">>) => parsed.tag = "Err"

\* the first line of the text has a '!' immediately before its first ':'
HeaderBang(input) ==
    LET first_line == lines(trim(input))[1]
        colon == find(first_line, <<":">>)
    IN  colon >= 2 /\ first_line[colon - 1] = "!"

\* C7: a successful parse of a text with '!' immediately before the ':' of its
\* header, or with a footer containing "BREAKING CHANGE", gives
\* is_breaking = TRUE; "feat!: breaking change" gives Feat, breaking, no scope.
C7_BreakingMarked ==
    parsed.tag = "Ok" =>
        /\ HeaderBang(text) => parsed.msg.is_breaking
        /\ (is_some(parsed.msg.footer)
              /\ contains(unwrap(parsed.msg.footer), <<"B", "R", "E", "A", "K", "I", "N", "G", " ", "C", "H", "A", "N", "G", "E">>))
                 => parsed.msg.is_breaking
        /\ text = <<"f", "e", "a", "t", "!", ":", " ", "b", "r", "e", "a", "k", "i", "n", "g", " ", "c", "h", "a", "n", "g", "e">> =>
              /\ parsed.msg.commit_type = "Feat"
              /\ parsed.msg.is_breaking
              /\ parsed.msg.scope = None

\* C8: for every text parse accepts, parsing the formatted message succeeds
\* and formatting that result gives the same text again.
C8_FormatIdempotent ==
    /\ (parsed.tag = "Ok" /\ reparsed # Pending) => reparsed.tag = "Ok"
    /\ is_some(reformatted) => reformatted = formatted

\* C23: every message a successful parse returns has a non-empty subject; a
\* header that ends right after the ':' does not parse into an empty subject.
C23_NonEmptySubject ==
    parsed.tag = "Ok" => parsed.msg.subject # <<>>

(***************************************************************************)
(* Diff analysis and type inference: src/analysis/diff.rs,                 *)
(* src/analysis/inference.rs, src/git/diff.rs                              *)
(***************************************************************************)
ChangeType == {"Added", "Deleted", "Modified", "Renamed", "Copied", "TypeChange"}

\* DiffStats::total_lines_changed
total_lines_changed(stats) == stats.lines_added + stats.lines_removed

\* the paths of the diff's files, in order
file_paths(d) == [i \in 1..Len(d.files) |-> d.files[i].path]

\* Path::file_stem: the file name without its extension
file_stem(p) ==
    LET name == file_name(p)
        dot == rfind(name, ".")
    IN  IF dot <= 1 THEN name ELSE Slice(name, 1, dot - 1)

\* extract_key_change: "<action> <file stem with '_' and '-' as spaces>"
extract_key_change(p, change_type) ==
    LET stem == file_stem(p)
        action == CASE change_type = "Added" -> <<"a", "d", "d">>
                    [] change_type = "Deleted" -> <<"r", "e", "m", "o", "v", "e">>
                    [] change_type = "Modified" -> <<"u", "p", "d", "a", "t", "e">>
                    [] change_type = "Renamed" -> <<"r", "e", "n", "a", "m", "e">>
                    [] OTHER -> <<"m", "o", "d", "i", "f", "y">>
    IN  IF file_name(p) = <<>> THEN None
        ELSE Some(action \o <<" ">>
                  \o [i \in 1..Len(stem) |-> IF stem[i] \in {"_", "-"} THEN " " ELSE stem[i]])

\* detect_refactoring; the f64 ratio added/removed lies in (0.5, 2.0) exactly
\* when 2*added > removed and added < 2*removed
detect_refactoring(d) ==
    LET balance == /\ d.stats.lines_added > 0
                   /\ d.stats.lines_removed > 0
                   /\ 2 * d.stats.lines_added > d.stats.lines_removed
                   /\ d.stats.lines_added < 2 * d.stats.lines_removed
        no_new_files == ~\E i \in 1..Len(d.files) : d.files[i].change_type = "Added"
    IN  balance /\ no_new_files /\ total_lines_changed(d.stats) > 10

FixKeywords == {<<"f", "i", "x">>, <<"b", "u", "g">>, <<"e", "r", "r", "o", "r">>, <<"i", "s", "s", "u", "e">>, <<"c", "r", "a", "s", "h">>, <<"n", "u", "l", "l">>, <<"u", "n", "d", "e", "f", "i", "n", "e", "d">>}

\* detect_fix_pattern
detect_fix_pattern(d) ==
    \/ \E p \in DOMAIN d.patches : \E k \in FixKeywords : contains(to_lowercase(d.patches[p]), k)
    \/ /\ d.stats.files_changed <= 3
       /\ total_lines_changed(d.stats) <= 50
       /\ \A i \in 1..Len(d.files) : d.files[i].change_type = "Modified"

categories_of_change_kind(d) ==
    LET Key(f) == IF f.change_type = "Added" THEN "NewFiles"
                  ELSE IF f.change_type = "Deleted" THEN "DeletedFiles"
                  ELSE categorize_file(f.path)
        InCategory(c) == LET Test(f) == Key(f) = c
                             kept == SelectSeq(d.files, Test)
                         IN  [i \in 1..Len(kept) |-> kept[i].path]
    IN  [c \in {Key(d.files[i]) : i \in 1..Len(d.files)} |-> InCategory(c)]

\* the categories map built by the loop of from_diff: each category present,
\* with the paths of its files in diff order
categories_of(d) ==
    LET paths == file_paths(d)
        InCategory(c) == LET Test(p) == categorize_file(p) = c IN SelectSeq(paths, Test)
    IN  [c \in {categorize_file(paths[i]) : i \in 1..Len(paths)} |-> InCategory(c)]

\* the key changes pushed by the loop of from_diff
RECURSIVE key_changes_of(_)
key_changes_of(fs) ==
    IF fs = <<>> THEN <<>>
    ELSE extract_key_change(Head(fs).path, Head(fs).change_type) \o key_changes_of(Tail(fs))

DiffAnalysis_docs_present(d, categories) ==
    [categories |-> categories,
     key_changes |-> key_changes_of(d.files),
     is_refactoring |-> detect_refactoring(d),
     adds_functionality |-> \/ "NewFiles" \in DOMAIN categories
                            \/ d.stats.lines_added > d.stats.lines_removed * 2,
     is_fix |-> detect_fix_pattern(d),
     is_config_change |-> /\ "Configuration" \in DOMAIN categories
                          /\ Cardinality(DOMAIN categories) <= 2,
     is_docs_change |-> "Documentation" \in DOMAIN categories,
     is_test_change |-> /\ "Tests" \in DOMAIN categories
                        /\ Cardinality(DOMAIN categories) = 1]

\* the DiffAnalysis that from_diff builds once its loop has filled categories
DiffAnalysis(d, categories) ==
    [categories |-> categories,
     key_changes |-> key_changes_of(d.files),
     is_refactoring |-> detect_refactoring(d),
     adds_functionality |-> \/ "NewFiles" \in DOMAIN categories
                            \/ d.stats.lines_added > d.stats.lines_removed * 2,
     is_fix |-> detect_fix_pattern(d),
     is_config_change |-> /\ "Configuration" \in DOMAIN categories
                          /\ Cardinality(DOMAIN categories) <= 2,
     is_docs_change |-> /\ "Documentation" \in DOMAIN categories
                        /\ Cardinality(DOMAIN categories) = 1,
     is_test_change |-> /\ "Tests" \in DOMAIN categories
                        /\ Cardinality(DOMAIN categories) = 1]

\* DiffAnalysis::from_diff
from_diff(d) == DiffAnalysis(d, categories_of(d))

\* a CommitTypeScore; the score in hundredths (0.95 is 95)
CommitTypeScore(t, score, reason) == [commit_type |-> t, score |-> score, reason |-> reason]

IsPerfPath(path_str) ==
    contains(path_str, <<"p", "e", "r", "f">>) \/ contains(path_str, <<"b", "e", "n", "c", "h">>) \/ contains(path_str, <<"o", "p", "t", "i", "m">>)

IsStylePath(path_str) ==
    \/ contains(path_str, <<"s", "t", "y", "l", "e">>)
    \/ contains(path_str, <<"l", "i", "n", "t">>)
    \/ contains(path_str, <<"f", "o", "r", "m", "a", "t">>)
    \/ ends_with(path_str, <<".", "e", "s", "l", "i", "n", "t", "r", "c">>)
    \/ ends_with(path_str, <<".", "p", "r", "e", "t", "t", "i", "e", "r", "r", "c">>)
    \/ ends_with(path_str, <<"r", "u", "s", "t", "f", "m", "t", ".", "t", "o", "m", "l">>)

\* the candidates pushed by the file loop of score_commit_types (lines 109-135)
RECURSIVE path_scores(_)
path_scores(files) ==
    IF files = <<>> THEN <<>>
    ELSE LET path_str == to_lowercase(Head(files))
         IN  (IF IsPerfPath(path_str)
              THEN <<CommitTypeScore("Perf", 70, "Performance-related file")>> ELSE <<>>)
             \o (IF IsStylePath(path_str)
                 THEN <<CommitTypeScore("Style", 80, "Style/formatting files changed")>>
                 ELSE <<>>)
             \o path_scores(Tail(files))

\* slice::sort_by with b.score compared to a.score: a stable sort, descending
RECURSIVE insert_by_score(_, _)
insert_by_score(sorted, x) ==
    IF sorted = <<>> THEN <<x>>
    ELSE IF Head(sorted).score >= x.score
         THEN <<Head(sorted)>> \o insert_by_score(Tail(sorted), x)
         ELSE <<x>> \o sorted

RECURSIVE sort_by_score_desc(_)
sort_by_score_desc(xs) ==
    IF xs = <<>> THEN <<>>
    ELSE insert_by_score(sort_by_score_desc(SubSeq(xs, 1, Len(xs) - 1)), xs[Len(xs)])

\* the candidates score_commit_types pushes for the analysis a, in the order
\* of its rules, then those of the file loop
pushed_scores(a, files) ==
    (IF a.is_docs_change
     THEN <<CommitTypeScore("Docs", 95, "Only documentation files changed")>> ELSE <<>>)
    \o (IF a.is_test_change
        THEN <<CommitTypeScore("Test", 95, "Only test files changed")>> ELSE <<>>)
    \o (IF a.is_config_change
        THEN <<CommitTypeScore("Chore", 80, "Configuration files changed")>> ELSE <<>>)
    \o (IF "Build" \in DOMAIN a.categories /\ Cardinality(DOMAIN a.categories) = 1
        THEN <<CommitTypeScore("Ci", 90, "CI/build files changed")>> ELSE <<>>)
    \o (IF a.is_refactoring
        THEN <<CommitTypeScore("Refactor", 75,
                               "Balanced additions/deletions suggest refactoring")>>
        ELSE <<>>)
    \o (IF a.is_fix
        THEN <<CommitTypeScore("Fix", 70, "Changes look like a bug fix")>> ELSE <<>>)
    \o (IF a.adds_functionality
        THEN <<CommitTypeScore("Feat", 60, "New files or significant additions")>>
        ELSE <<>>)
    \o path_scores(files)

\* the default candidate, pushed when no rule pushed one
or_default(pushed) ==
    IF pushed = <<>>
    THEN <<CommitTypeScore("Feat", 30, "Default based on source changes")>>
    ELSE pushed

\* score_commit_types
score_commit_types(d, files) ==
    sort_by_score_desc(or_default(pushed_scores(from_diff(d), files)))

\* the later of two candidates unless the earlier scores strictly more
later_max(best, x) == IF best.score > x.score THEN best ELSE x

\* Iterator::max_by over the scores: the last of the maximal elements
RECURSIVE max_by_score(_)
max_by_score(xs) ==
    IF Len(xs) = 1 THEN xs[1]
    ELSE later_max(max_by_score(SubSeq(xs, 1, Len(xs) - 1)), xs[Len(xs)])

\* the earlier of two candidates unless the later scores strictly less
earlier_min(best, x) == IF best.score <= x.score THEN best ELSE x

\* Iterator::min_by over the scores: the first of the minimal elements
RECURSIVE min_by_score(_)
min_by_score(xs) ==
    IF Len(xs) = 1 THEN xs[1]
    ELSE earlier_min(min_by_score(SubSeq(xs, 1, Len(xs) - 1)), xs[Len(xs)])

AboveThreshold(s) == s.score >= 50

\* .max_by(score).map(|s| s.commit_type) over the kept candidates
best_type(kept) == IF kept = <<>> THEN None ELSE Some(max_by_score(kept).commit_type)

lowest_type(kept) == IF kept = <<>> THEN None ELSE Some(min_by_score(kept).commit_type)

infer_type_lowest(d, files) ==
    lowest_type(SelectSeq(score_commit_types(d, files), AboveThreshold))

infer_type_unfiltered(d, files) == best_type(score_commit_types(d, files))

\* infer_type
infer_type(d, files) ==
    best_type(SelectSeq(score_commit_types(d, files), AboveThreshold))

(***************************************************************************)
(* Inputs of the inference: diffs of up to MaxFiles files.                 *)
(***************************************************************************)
MaxFiles == 2

FileChange(p, change_type) == [path |-> p, change_type |-> change_type]

FileChanges ==
    {FileChange(<<"R", "E", "A", "D", "M", "E", ".", "m", "d">>, "Modified"), FileChange(<<"R", "E", "A", "D", "M", "E", ".", "m", "d">>, "Added"),
     FileChange(<<"d", "o", "c", "s", "/", "p", "e", "r", "f", ".", "m", "d">>, "Modified"), FileChange(<<"t", "e", "s", "t", "s", "/", "t", "e", "s", "t", "_", "m", "a", "i", "n", ".", "r", "s">>, "Modified"),
     FileChange(<<"t", "e", "s", "t", "s", "/", "l", "i", "n", "t", "_", "t", "e", "s", "t", ".", "r", "s">>, "Added"), FileChange(<<"s", "r", "c", "/", "s", "t", "y", "l", "e", ".", "r", "s">>, "Modified"),
     FileChange(<<"s", "r", "c", "/", "m", "a", "i", "n", ".", "r", "s">>, "Modified"), FileChange(<<"s", "r", "c", "/", "m", "a", "i", "n", ".", "r", "s">>, "Added"),
     FileChange(<<"s", "r", "c", "/", "m", "a", "i", "n", ".", "r", "s">>, "Deleted"), FileChange(<<"C", "a", "r", "g", "o", ".", "t", "o", "m", "l">>, "Modified"),
     FileChange(<<".", "g", "i", "t", "h", "u", "b", "/", "w", "o", "r", "k", "f", "l", "o", "w", "s", "/", "c", "i", ".", "y", "m", "l">>, "Modified")}

\* lines added and removed over the whole diff
LineCounts == {<<0, 0>>, <<6, 5>>, <<30, 5>>, <<30, 40>>}

PatchTexts == {<<"+", "l", "e", "t", " ", "x", " ", "=", " ", "1", ";">>, <<"+", "/", "/", " ", "F", "i", "x", " ", "N", "U", "L", "L", " ", "d", "e", "r", "e", "f">>}

FileLists == UNION {[1..n -> FileChanges] : n \in 0..MaxFiles}

\* DiffInfo as parse_diff builds it: files_changed is files.len(), and every
\* file has a patch
DiffInfo(files, lc, patch) ==
    [files |-> files,
     stats |-> [files_changed |-> Len(files), lines_added |-> lc[1],
                lines_removed |-> lc[2], binary_files |-> 0],
     patches |-> [p \in {files[i].path : i \in 1..Len(files)} |-> patch]]

\* DiffInfo::empty
EmptyDiff == DiffInfo(<<>>, <<0, 0>>, <<>>)

Diffs ==
    {EmptyDiff}
        \cup {DiffInfo(fs, lc, pt) : fs \in FileLists \ {<<>>}, lc \in LineCounts,
                                     pt \in PatchTexts}

InferIdle ==
    /\ diff = EmptyDiff
    /\ analysis = None
    /\ scores = None
    /\ inferred = None
    /\ ipc = "idle"

\* DiffAnalysis::from_diff(diff)
Analyze ==
    /\ ipc = "start"
    /\ analysis' = Some(from_diff(diff))
    /\ ipc' = "analyzed"
    /\ UNCHANGED <<diff, scores, inferred, catVars, ruleVars, parseVars, ctxVars, cmdVars>>

\* score_commit_types(diff, staged_files)
Score ==
    /\ ipc = "analyzed"
    /\ scores' = Some(score_commit_types(diff, file_paths(diff)))
    /\ ipc' = "scored"
    /\ UNCHANGED <<diff, analysis, inferred, catVars, ruleVars, parseVars, ctxVars, cmdVars>>

\* infer_type(diff, staged_files), as RepositoryContext calls it
Infer ==
    /\ ipc = "scored"
    /\ inferred' = Some(infer_type(diff, file_paths(diff)))
    /\ ipc' = "done"
    /\ UNCHANGED <<diff, analysis, scores, catVars, ruleVars, parseVars, ctxVars, cmdVars>>

NextInfer == Analyze \/ Score \/ Infer

(***************************************************************************)
(* Properties of the inference.                                            *)
(***************************************************************************)
\* every file of the diff falls in category c, and there is at least one
AllFilesIn(c) ==
    /\ diff.files # <<>>
    /\ \A i \in 1..Len(diff.files) : categorize_file(diff.files[i].path) = c

HasScore(t, score) ==
    \E i \in 1..Len(unwrap(scores)) :
        unwrap(scores)[i].commit_type = t /\ unwrap(scores)[i].score = score

\* C9: for a diff whose files are all Documentation, the candidates contain
\* Docs with score 0.95 and infer_type returns Docs; for a diff whose files
\* are all Tests, infer_type returns Test; whatever else fires.
C9_DocsAndTestsOnly ==
    ipc = "done" =>
        /\ AllFilesIn("Documentation") =>
              /\ unwrap(analysis).is_docs_change
              /\ HasScore("Docs", 95)
              /\ unwrap(inferred) = Some("Docs")
        /\ AllFilesIn("Tests") =>
              /\ unwrap(analysis).is_test_change
              /\ unwrap(inferred) = Some("Test")

\* a documentation-only diff for which the fix, refactoring and performance
\* candidates are raised as well, inferred as Docs
C9_Witness ==
    /\ ipc = "done"
    /\ AllFilesIn("Documentation")
    /\ HasScore("Fix", 70)
    /\ HasScore("Refactor", 75)
    /\ HasScore("Perf", 70)
    /\ unwrap(inferred) = Some("Docs")

\* the largest score among the candidates
MaxScore ==
    CHOOSE x \in {unwrap(scores)[i].score : i \in 1..Len(unwrap(scores))} :
        \A i \in 1..Len(unwrap(scores)) : unwrap(scores)[i].score <= x

\* some scoring rule other than the default fired for the diff
SomeRuleFired ==
    LET a == unwrap(analysis)
    IN  \/ a.is_docs_change \/ a.is_test_change \/ a.is_config_change
        \/ DOMAIN a.categories = {"Build"}
        \/ a.is_refactoring \/ a.is_fix \/ a.adds_functionality
        \/ \E i \in 1..Len(diff.files) :
              \/ IsPerfPath(to_lowercase(diff.files[i].path))
              \/ IsStylePath(to_lowercase(diff.files[i].path))

\* C10: infer_type returns a type exactly when some candidate scores at least
\* 0.5, and that type carries the largest score; the default Feat candidate
\* (0.30) is in the list exactly when no other rule fired, and then no type
\* is returned.
C10_ThresholdAndMaximum ==
    ipc = "done" =>
        /\ is_some(unwrap(inferred)) <=>
              \E i \in 1..Len(unwrap(scores)) : unwrap(scores)[i].score >= 50
        /\ is_some(unwrap(inferred)) => HasScore(unwrap(unwrap(inferred)), MaxScore)
        /\ HasScore("Feat", 30) <=> ~SomeRuleFired
        /\ HasScore("Feat", 30) => unwrap(inferred) = None

\* a diff for which only the default candidate is raised, and none inferred
C10_Witness ==
    /\ ipc = "done"
    /\ diff.files # <<>>
    /\ unwrap(scores) = <<CommitTypeScore("Feat", 30, "Default based on source changes")>>
    /\ unwrap(inferred) = None

\* C11: for the empty diff (no files, zero statistics, no patches) from_diff
\* gives an empty category map and infer_type returns None.
C11_EmptyDiffNoType ==
    (ipc = "done" /\ diff = EmptyDiff) =>
        /\ DOMAIN unwrap(analysis).categories = {}
        /\ unwrap(inferred) = None

\* the number of "only" flags of the analysis that are set
OnlyFlags(a) ==
    Cardinality({f \in {"docs", "test", "config"} :
                    \/ f = "docs" /\ a.is_docs_change
                    \/ f = "test" /\ a.is_test_change
                    \/ f = "config" /\ a.is_config_change})

C24_FirstOfTiedCandidates ==
    (ipc = "done" /\ MaxScore >= 50) =>
        unwrap(inferred) = Some(unwrap(scores)[1].commit_type)

\* every file of the diff is of change kind Added, and there is at least one
OnlyAddedFiles ==
    /\ diff.files # <<>>
    /\ \A i \in 1..Len(diff.files) : diff.files[i].change_type = "Added"

\* C28: the category map of from_diff only has keys among Documentation,
\* Tests, Build, Configuration, Assets and Source, never NewFiles or
\* DeletedFiles, whatever the change kinds; so adds_functionality is true
\* exactly when lines_added > 2 * lines_removed, and is false for a diff of
\* Added files only with lines_added <= 2 * lines_removed.
C28_NoNewFilesCategory ==
    is_some(analysis) =>
        /\ DOMAIN unwrap(analysis).categories \subseteq
              {"Documentation", "Tests", "Build", "Configuration", "Assets", "Source"}
        /\ unwrap(analysis).adds_functionality
              <=> diff.stats.lines_added > 2 * diff.stats.lines_removed
        /\ (OnlyAddedFiles /\ diff.stats.lines_added <= 2 * diff.stats.lines_removed)
              => ~unwrap(analysis).adds_functionality

\* a diff of two Added files with 6 lines added and 5 removed, analysed as
\* not adding functionality
C28_Witness ==
    /\ is_some(analysis)
    /\ OnlyAddedFiles
    /\ Len(diff.files) = 2
    /\ diff.stats.lines_added = 6
    /\ diff.stats.lines_removed = 5
    /\ ~unwrap(analysis).adds_functionality

(***************************************************************************)
(* Paths and glob patterns (std::path, the glob crate).                    *)
(***************************************************************************)
\* str::split('/')
RECURSIVE split_slash(_)
split_slash(s) ==
    LET i == find(s, <<"/">>)
    IN  IF i = 0 THEN <<s>>
        ELSE <<Slice(s, 1, i - 1)>> \o split_slash(Slice(s, i + 1, Len(s)))

NonEmpty(c) == c # <<>>

\* Path::components of a relative path: its names, separators dropped
components(p) == SelectSeq(split_slash(p), NonEmpty)

\* the PathBuf collected from components
from_components(cs) == join(cs, <<"/">>)

\* Path::parent: the path without its final component; None for the empty path
parent(p) ==
    IF components(p) = <<>> THEN None
    ELSE Some(from_components(SubSeq(components(p), 1, Len(components(p)) - 1)))

\* Path::file_name as an Option: the final component, None for the empty path
final_component(p) ==
    IF components(p) = <<>> THEN None ELSE Some(components(p)[Len(components(p))])

\* the length of the longest common prefix of two component lists
common_len(a, b) ==
    Cardinality({k \in 1..Len(a) : k <= Len(b) /\ \A i \in 1..k : a[i] = b[i]})

\* Path::starts_with: base's components are a prefix of p's
path_starts_with(p, base) == common_len(components(base), components(p)) = Len(components(base))

\* glob::Pattern::new fails on a '[' that no ']' closes (invalid range pattern)
valid_pattern(pat) ==
    \A i \in 1..Len(pat) : pat[i] = "[" => \E j \in (i + 2)..Len(pat) : pat[j] = "]"

\* the positions of s that the first k tokens of pat can reach; the patterns
\* of the model are made of literals, '?' and '*', and under the default
\* MatchOptions '*' and '?' match '/' as well
RECURSIVE glob_reach(_, _, _)
glob_reach(pat, s, k) ==
    IF k = 0 THEN {0}
    ELSE IF pat[k] = "*"
         THEN {j \in 0..Len(s) : \E i \in glob_reach(pat, s, k - 1) : i <= j}
         ELSE {i + 1 : i \in {x \in glob_reach(pat, s, k - 1) :
                                 x < Len(s) /\ (pat[k] = "?" \/ s[x + 1] = pat[k])}}

\* glob::Pattern::matches, and matches_path on a UTF-8 path
glob_matches(pat, s) == Len(s) \in glob_reach(pat, s, Len(pat))

(***************************************************************************)
(* Packages and scope: src/analysis/context.rs, src/analysis/inference.rs, *)
(* src/monorepo/scope.rs                                                   *)
(***************************************************************************)
\* analysis::context::Package
Package(p, name, has_changes) == [path |-> p, name |-> name, has_changes |-> has_changes]

\* config::PackageConfig
PackageConfig(p, scope) == [path |-> p, scope |-> scope]

\* config::PathRuleConfig with its key, the glob pattern
PathRule(pattern, scope) == [pattern |-> pattern, scope |-> scope]

\* config::BranchRuleConfig with its key; the rule is told apart by its forbid list
BranchRule(pattern, forbid) == [pattern |-> pattern, forbid |-> forbid]

\* the sections of CkConfig read by the context; paths and branch are the
\* HashMaps in their iteration order, branch_configured the branch entries in
\* the order of the configuration file
CkConfig(enabled, pkgs, require_scope, allowed, paths, branch_configured, branch_map) ==
    [monorepo |-> [enabled |-> enabled, root_scope |-> <<"r", "o", "o", "t">>, packages |-> pkgs],
     require_scope |-> require_scope,
     scope_allowed |-> allowed,
     paths |-> paths,
     branch_configured |-> branch_configured,
     branch |-> branch_map]

any_starts_with(fs, base) == \E i \in 1..Len(fs) : path_starts_with(fs[i], base)

\* the explicitly configured packages (first loop of detect_packages)
configured_packages(fs, cfg) ==
    [i \in 1..Len(cfg.monorepo.packages) |->
        Package(cfg.monorepo.packages[i].path, cfg.monorepo.packages[i].scope,
                any_starts_with(fs, cfg.monorepo.packages[i].path))]

\* the directories the walk visits for one file: its parent, then each
\* ancestor up to the empty path
ancestors(p) ==
    [k \in 1..Len(components(p)) |->
        from_components(SubSeq(components(p), 1, Len(components(p)) - k))]

RECURSIVE walked_dirs(_)
walked_dirs(fs) == IF fs = <<>> THEN <<>> ELSE ancestors(Head(fs)) \o walked_dirs(Tail(fs))

\* the package name of an auto-detected directory
dir_package_name(dir, root_scope) ==
    IF is_some(final_component(dir)) THEN unwrap(final_component(dir)) ELSE root_scope

\* the auto-detection loop over the visited directories: a directory not yet
\* seen that holds a marker becomes a package with changes, and the walk goes on
RECURSIVE auto_detected(_, _, _, _)
auto_detected(dirs, seen_paths, markers, root_scope) ==
    IF dirs = <<>> THEN <<>>
    ELSE IF Head(dirs) \notin seen_paths /\ Head(dirs) \in markers
         THEN <<Package(Head(dirs), dir_package_name(Head(dirs), root_scope), TRUE)>>
              \o auto_detected(Tail(dirs), seen_paths \cup {Head(dirs)}, markers, root_scope)
         ELSE auto_detected(Tail(dirs), seen_paths, markers, root_scope)

\* analysis::context::detect_packages
detect_packages(fs, cfg, markers) ==
    configured_packages(fs, cfg)
    \o (IF cfg.monorepo.enabled
        THEN auto_detected(walked_dirs(fs),
                           {from_components(components(cfg.monorepo.packages[i].path)) :
                                i \in 1..Len(cfg.monorepo.packages)},
                           markers, cfg.monorepo.root_scope)
        ELSE <<>>)

HasChanges(p) == p.has_changes

\* the common components of common and the parents of the remaining files
RECURSIVE common_over_parents(_, _)
common_over_parents(common, rest) ==
    IF rest = <<>> THEN common
    ELSE IF is_none(parent(Head(rest))) THEN common_over_parents(common, Tail(rest))
    ELSE common_over_parents(
             SubSeq(common, 1, common_len(common, components(unwrap(parent(Head(rest)))))),
             Tail(rest))

\* the Option of a component list: None when it is empty
non_empty_path(cs) == IF cs = <<>> THEN None ELSE Some(from_components(cs))

\* inference::find_common_directory
find_common_directory(fs) ==
    IF fs = <<>> THEN None
    ELSE IF is_none(parent(fs[1])) THEN None
    ELSE non_empty_path(common_over_parents(components(unwrap(parent(fs[1]))), Tail(fs)))

\* the first allowed scope that the lowercased directory contains
RECURSIVE first_contained(_, _)
first_contained(dir_name, allowed) ==
    IF allowed = <<>> THEN None
    ELSE IF contains(dir_name, Head(allowed)) THEN Some(Head(allowed))
    ELSE first_contained(dir_name, Tail(allowed))

\* the directory's own name as scope, unless it is "src"
directory_name_scope(name) ==
    IF is_some(name) /\ unwrap(name) # <<>> /\ unwrap(name) # <<"s", "r", "c">> THEN name ELSE None

\* the scope infer_scope draws from the common directory (lines 163-181)
directory_scope(dir, cfg) ==
    IF is_some(first_contained(to_lowercase(dir), cfg.scope_allowed))
    THEN first_contained(to_lowercase(dir), cfg.scope_allowed)
    ELSE directory_name_scope(final_component(dir))

any_matches_path(pat, fs) == \E i \in 1..Len(fs) : glob_matches(pat, fs[i])

\* the loop over the path rules (lines 184-194), in the map's iteration
\* order; an invalid pattern ends infer_scope with None
RECURSIVE path_rule_scope(_, _)
path_rule_scope(rules, fs) ==
    IF rules = <<>> THEN None
    ELSE IF is_none(Head(rules).scope) THEN path_rule_scope(Tail(rules), fs)
    ELSE IF ~valid_pattern(Head(rules).pattern) THEN None
    ELSE IF any_matches_path(Head(rules).pattern, fs) THEN Head(rules).scope
    ELSE path_rule_scope(Tail(rules), fs)

\* infer_scope once the single-package case is over
scope_without_package(common_dir, fs, cfg) ==
    IF is_some(common_dir) /\ is_some(directory_scope(unwrap(common_dir), cfg))
    THEN directory_scope(unwrap(common_dir), cfg)
    ELSE path_rule_scope(cfg.paths, fs)

\* the name of the one changed package, if there is exactly one
single_changed(changed) == IF Len(changed) = 1 THEN Some(changed[1].name) ELSE None

infer_scope_directory_first(fs, pkgs, cfg) ==
    IF is_some(scope_without_package(find_common_directory(fs), fs, cfg))
    THEN scope_without_package(find_common_directory(fs), fs, cfg)
    ELSE single_changed(SelectSeq(pkgs, HasChanges))

\* inference::infer_scope
infer_scope(fs, pkgs, cfg) ==
    IF is_some(single_changed(SelectSeq(pkgs, HasChanges)))
    THEN single_changed(SelectSeq(pkgs, HasChanges))
    ELSE scope_without_package(find_common_directory(fs), fs, cfg)

\* monorepo::detector::PackageInfo: the fields the resolver reads
PackageInfo(p, scope) == [path |-> p, scope |-> scope]

\* the ScopeResolver that ScopeResolver::new builds
ScopeResolver(pkgs, root_scope) == [packages |-> pkgs, root_scope |-> root_scope]

\* Iterator::max_by_key on the component count: the last of the deepest
deepest(cands) ==
    cands[CHOOSE i \in 1..Len(cands) :
            /\ \A j \in 1..Len(cands) :
                  Len(components(cands[j].path)) <= Len(components(cands[i].path))
            /\ \A j \in (i + 1)..Len(cands) :
                  Len(components(cands[j].path)) < Len(components(cands[i].path))]

some_deepest(cands) == IF cands = <<>> THEN None ELSE Some(deepest(cands))

find_package_first_registered(r, file) ==
    LET Contains(pkg) == path_starts_with(file, pkg.path)
        cands == SelectSeq(r.packages, Contains)
    IN  IF cands = <<>> THEN None ELSE Some(cands[1])

\* ScopeResolver::find_package_for_file
find_package_for_file(r, file) ==
    LET Contains(pkg) == path_starts_with(file, pkg.path)
    IN  some_deepest(SelectSeq(r.packages, Contains))

\* package_scopes with the scope of pkg pushed unless it is there already
push_scope(package_scopes, pkg) ==
    IF is_none(pkg) \/ unwrap(pkg).scope \in Range(package_scopes)
    THEN package_scopes
    ELSE Append(package_scopes, unwrap(pkg).scope)

\* the loop of resolve over the files (lines 38-44)
RECURSIVE collect_scopes(_, _, _)
collect_scopes(r, fs, package_scopes) ==
    IF fs = <<>> THEN package_scopes
    ELSE collect_scopes(r, Tail(fs), push_scope(package_scopes, find_package_for_file(r, Head(fs))))

\* the common components of common and the remaining files
RECURSIVE common_over_files(_, _)
common_over_files(common, rest) ==
    IF rest = <<>> THEN common
    ELSE common_over_files(SubSeq(common, 1, common_len(common, components(Head(rest)))),
                           Tail(rest))

\* monorepo::scope::find_common_prefix
find_common_prefix(fs) ==
    IF fs = <<>> THEN None
    ELSE non_empty_path(common_over_files(components(fs[1]), Tail(fs)))

\* the arm of resolve for no matched package (lines 47-57)
scope_of_prefix(common_path, root_scope) ==
    IF is_some(common_path) /\ is_some(final_component(unwrap(common_path)))
    THEN final_component(unwrap(common_path))
    ELSE Some(root_scope)

\* the match of resolve on the number of scopes (lines 46-63)
scope_of(package_scopes, fs, root_scope) ==
    IF Len(package_scopes) = 0 THEN scope_of_prefix(find_common_prefix(fs), root_scope)
    ELSE IF Len(package_scopes) = 1 THEN Some(package_scopes[1])
    ELSE None

\* ScopeResolver::resolve
resolve(r, fs) ==
    IF fs = <<>> THEN None
    ELSE scope_of(collect_scopes(r, fs, <<>>), fs, r.root_scope)

\* the scopes seen by the loop of is_multi_package (a HashSet)
seen_scopes(r, fs) ==
    {unwrap(find_package_for_file(r, fs[i])).scope :
        i \in {k \in 1..Len(fs) : is_some(find_package_for_file(r, fs[k]))}}

\* ScopeResolver::is_multi_package
is_multi_package(r, fs) == Cardinality(seen_scopes(r, fs)) > 1

\* ScopeResolver::changed_packages
changed_packages(r, fs) ==
    LET Changed(pkg) == any_starts_with(fs, pkg.path)
    IN  SelectSeq(r.packages, Changed)

(***************************************************************************)
(* Warning generator: src/analysis/warnings.rs                             *)
(***************************************************************************)
\* a Warning; of the message and suggestion texts only the file that a
\* risky-changes message names is kept
Warning(level, code, file) == [level |-> level, code |-> code, file |-> file]

DEFAULT_SIZE_THRESHOLD == 500

SourceExtensions == {<<"r", "s">>, <<"p", "y">>, <<"j", "s">>, <<"t", "s">>, <<"g", "o">>, <<"j", "a", "v", "a">>, <<"c">>, <<"c", "p", "p">>}

has_source(fs) ==
    \E i \in 1..Len(fs) : extension(fs[i]) \in SourceExtensions /\ ~contains(fs[i], <<"t", "e", "s", "t">>)

has_tests(fs) == \E i \in 1..Len(fs) : contains(to_lowercase(fs[i]), <<"t", "e", "s", "t">>)

has_docs(fs) == \E i \in 1..Len(fs) : extension(fs[i]) \in {<<"m", "d">>, <<"r", "s", "t">>}

concerns_count(fs) ==
    Cardinality({c \in {"source", "tests", "docs"} :
                    \/ c = "source" /\ has_source(fs)
                    \/ c = "tests" /\ has_tests(fs)
                    \/ c = "docs" /\ has_docs(fs)})

risky_patterns ==
    <<<<"s", "e", "c", "r", "e", "t">>, <<"p", "a", "s", "s", "w", "o", "r", "d">>, <<"k", "e", "y">>, <<"c", "r", "e", "d", "e", "n", "t", "i", "a", "l">>, <<".", "e", "n", "v">>, <<"i", "d", "_", "r", "s", "a">>, <<"i", "d", "_", "e", "d", "2", "5", "5", "1", "9">>>>

\* the patterns that the lowercased path contains
risky_hits(file) ==
    {k \in 1..Len(risky_patterns) : contains(to_lowercase(file), risky_patterns[k])}

risky_for_file_every_pattern(file) ==
    [k \in 1..Cardinality(risky_hits(file)) |-> Warning("Error", "risky-changes", Some(file))]

\* the inner loop of the risky check: one warning at the first pattern that
\* matches, then break
risky_for_file(file) ==
    IF risky_hits(file) = {} THEN <<>> ELSE <<Warning("Error", "risky-changes", Some(file))>>

\* the loop of the risky check over the files
RECURSIVE risky_warnings(_)
risky_warnings(fs) ==
    IF fs = <<>> THEN <<>> ELSE risky_for_file(Head(fs)) \o risky_warnings(Tail(fs))

oversized_warning(d) ==
    IF total_lines_changed(d.stats) > DEFAULT_SIZE_THRESHOLD
    THEN <<Warning("Warning", "oversized-commit", None)>> ELSE <<>>

multiple_packages_warning(pkgs) ==
    IF Len(SelectSeq(pkgs, HasChanges)) > 1
    THEN <<Warning("Warning", "multiple-packages", None)>> ELSE <<>>

mixed_concerns_warning(fs) ==
    IF concerns_count(fs) > 2 THEN <<Warning("Info", "mixed-concerns", None)>> ELSE <<>>

missing_scope_warning(fs, pkgs, cfg) ==
    IF cfg.require_scope /\ fs # <<>> /\ ~\E i \in 1..Len(pkgs) : pkgs[i].has_changes
    THEN <<Warning("Info", "missing-scope", None)>> ELSE <<>>

binary_files_warning(d) ==
    IF d.stats.binary_files > 0 THEN <<Warning("Info", "binary-files", None)>> ELSE <<>>

generate_warnings_binary_first(d, fs, pkgs, cfg) ==
    binary_files_warning(d)
    \o oversized_warning(d)
    \o multiple_packages_warning(pkgs)
    \o mixed_concerns_warning(fs)
    \o missing_scope_warning(fs, pkgs, cfg)
    \o risky_warnings(fs)

\* generate_warnings
generate_warnings(d, fs, pkgs, cfg) ==
    oversized_warning(d)
    \o multiple_packages_warning(pkgs)
    \o mixed_concerns_warning(fs)
    \o missing_scope_warning(fs, pkgs, cfg)
    \o risky_warnings(fs)
    \o binary_files_warning(d)

\* Warnings::has_errors
has_errors(ws) == \E i \in 1..Len(ws) : ws[i].level = "Error"

(***************************************************************************)
(* Branch rules: RuleEngine::get_branch_rules, src/rules/engine.rs         *)
(***************************************************************************)
\* HashMap::get on the branch map; its keys are distinct
map_get(entries, key) ==
    IF \E i \in 1..Len(entries) : entries[i].pattern = key
    THEN Some(entries[CHOOSE i \in 1..Len(entries) : entries[i].pattern = key])
    ELSE None

\* the loop over the branch map (lines 99-106), in the map's iteration
\* order; an invalid pattern ends the lookup with None
RECURSIVE first_glob_match(_, _)
first_glob_match(entries, name) ==
    IF entries = <<>> THEN None
    ELSE IF ~contains(Head(entries).pattern, <<"*">>) THEN first_glob_match(Tail(entries), name)
    ELSE IF ~valid_pattern(Head(entries).pattern) THEN None
    ELSE IF glob_matches(Head(entries).pattern, name) THEN Some(Head(entries))
    ELSE first_glob_match(Tail(entries), name)

\* RuleEngine::get_branch_rules; current is the Option that
\* git::get_branch_name().ok() gives
get_branch_rules(cfg, current) ==
    IF is_none(current) THEN None
    ELSE IF is_some(map_get(cfg.branch, unwrap(current)))
    THEN map_get(cfg.branch, unwrap(current))
    ELSE first_glob_match(cfg.branch, unwrap(current))

(***************************************************************************)
(* Inputs of the context: staged files, configurations, marker             *)
(* directories, resolvers.                                                 *)
(***************************************************************************)
DefaultCkConfig == CkConfig(TRUE, <<>>, FALSE, <<>>, <<>>, <<>>, <<>>)

CtxIdle ==
    /\ staged_files = <<>>
    /\ marker_dirs = {}
    /\ ck_config = DefaultCkConfig
    /\ packages = <<>>
    /\ suggested_scope = None
    /\ resolver = ScopeResolver(<<>>, <<"r", "o", "o", "t">>)
    /\ resolved = None
    /\ multi_package = None
    /\ warnings = None
    /\ branch = None
    /\ branch_rules = <<>>
    /\ cpc = "idle"

ScopeFiles ==
    {<<"c", "r", "a", "t", "e", "s", "/", "c", "o", "r", "e", "/", "s", "r", "c", "/", "l", "i", "b", ".", "r", "s">>, <<"c", "r", "a", "t", "e", "s", "/", "c", "l", "i", "/", "s", "r", "c", "/", "m", "a", "i", "n", ".", "r", "s">>, <<"s", "r", "c", "/", "m", "a", "i", "n", ".", "r", "s">>,
     <<"s", "r", "c", "/", "c", "l", "i", "/", "a", "r", "g", "s", ".", "r", "s">>, <<"s", "r", "c", "/", "c", "l", "i", "/", "d", "i", "s", "p", "a", "t", "c", "h", ".", "r", "s">>, <<"d", "o", "c", "s", "/", "g", "u", "i", "d", "e", ".", "m", "d">>}

ScopeFileLists == UNION {[1..n -> ScopeFiles] : n \in 0..MaxFiles}

CorePackage == PackageConfig(<<"c", "r", "a", "t", "e", "s", "/", "c", "o", "r", "e">>, <<"c", "o", "r", "e">>)
CliPackage == PackageConfig(<<"c", "r", "a", "t", "e", "s", "/", "c", "l", "i">>, <<"c", "l", "i">>)

\* a configuration of the scope inference: auto-detection, configured
\* packages, allowed scopes and path rules
ScopeConfig(enabled, pkgs, allowed, paths) ==
    CkConfig(enabled, pkgs, FALSE, allowed, paths, <<>>, <<>>)

ScopeConfigs ==
    {ScopeConfig(TRUE, <<>>, <<>>, <<>>),
     ScopeConfig(FALSE, <<>>, <<>>, <<>>),
     ScopeConfig(FALSE, <<CorePackage>>, <<>>, <<>>),
     ScopeConfig(TRUE, <<CorePackage>>, <<>>, <<>>),
     ScopeConfig(FALSE, <<CorePackage, CliPackage>>, <<>>, <<>>),
     ScopeConfig(FALSE, <<CorePackage, CliPackage>>, <<<<"c", "l", "i">>>>,
                 <<PathRule(<<"d", "o", "c", "s", "/", "*">>, Some(<<"d", "o", "c", "s">>))>>),
     ScopeConfig(FALSE, <<>>, <<<<"c", "l", "i">>>>, <<>>),
     ScopeConfig(FALSE, <<>>, <<>>,
                 <<PathRule(<<"s", "r", "c", "/", "*">>, Some(<<"a", "p", "p">>)), PathRule(<<"*", ".", "r", "s">>, Some(<<"r", "u", "s", "t">>))>>),
     ScopeConfig(FALSE, <<>>, <<>>,
                 <<PathRule(<<"*", ".", "r", "s">>, Some(<<"r", "u", "s", "t">>)), PathRule(<<"s", "r", "c", "/", "*">>, Some(<<"a", "p", "p">>))>>),
     ScopeConfig(FALSE, <<>>, <<>>,
                 <<PathRule(<<"[", "x">>, Some(<<"x">>)), PathRule(<<"d", "o", "c", "s", "/", "*">>, Some(<<"d", "o", "c", "s">>))>>),
     ScopeConfig(FALSE, <<>>, <<>>,
                 <<PathRule(<<"d", "o", "c", "s", "/", "*">>, None), PathRule(<<"*", ".", "m", "d">>, Some(<<"d", "o", "c", "s">>))>>)}

\* the directories holding a marker file: none, the repository root, or the
\* root and both crates
MarkerDirSets == {{}, {<<>>}, {<<>>, <<"c", "r", "a", "t", "e", "s", "/", "c", "o", "r", "e">>, <<"c", "r", "a", "t", "e", "s", "/", "c", "l", "i">>}}

Resolvers ==
    {ScopeResolver(<<>>, <<"r", "o", "o", "t">>),
     ScopeResolver(<<PackageInfo(<<"c", "r", "a", "t", "e", "s", "/", "c", "o", "r", "e">>, <<"c", "o", "r", "e">>)>>, <<"r", "o", "o", "t">>),
     ScopeResolver(<<PackageInfo(<<"c", "r", "a", "t", "e", "s", "/", "c", "o", "r", "e">>, <<"c", "o", "r", "e">>),
                     PackageInfo(<<"c", "r", "a", "t", "e", "s", "/", "c", "l", "i">>, <<"c", "l", "i">>)>>, <<"r", "o", "o", "t">>),
     ScopeResolver(<<PackageInfo(<<"c", "r", "a", "t", "e", "s">>, <<"a", "l", "l">>),
                     PackageInfo(<<"c", "r", "a", "t", "e", "s", "/", "c", "o", "r", "e">>, <<"c", "o", "r", "e">>)>>, <<"r", "o", "o", "t">>),
     ScopeResolver(<<PackageInfo(<<"c", "r", "a", "t", "e", "s", "/", "c", "o", "r", "e">>, <<"c", "o", "r", "e">>),
                     PackageInfo(<<"c", "r", "a", "t", "e", "s">>, <<"a", "l", "l">>)>>, <<"r", "o", "o", "t">>)}

\* a configuration, the marker directories of the working tree and a resolver:
\* the marker directories vary where auto-detection is enabled, the resolver
\* where it is not
ScopeSetups ==
    {<<c, m, ScopeResolver(<<>>, <<"r", "o", "o", "t">>)>> :
        c \in {x \in ScopeConfigs : x.monorepo.enabled}, m \in MarkerDirSets}
    \cup {<<c, {}, r>> : c \in {x \in ScopeConfigs : ~x.monorepo.enabled}, r \in Resolvers}

\* analysis::context::detect_packages(staged_files, config)
DetectPackages ==
    /\ cpc = "start"
    /\ packages' = detect_packages(staged_files, ck_config, marker_dirs)
    /\ cpc' = "detected"
    /\ UNCHANGED <<staged_files, marker_dirs, ck_config, suggested_scope, resolver, resolved,
                   multi_package, warnings, branch, branch_rules, catVars, ruleVars, parseVars, inferVars, cmdVars>>

\* infer_scope(staged_files, packages, config), as RepositoryContext calls it
InferScope ==
    /\ cpc = "detected"
    /\ suggested_scope' = Some(infer_scope(staged_files, packages, ck_config))
    /\ cpc' = "inferred"
    /\ UNCHANGED <<staged_files, marker_dirs, ck_config, packages, resolver, resolved,
                   multi_package, warnings, branch, branch_rules, catVars, ruleVars, parseVars, inferVars, cmdVars>>

\* ScopeResolver::resolve(staged_files)
Resolve ==
    /\ cpc = "inferred"
    /\ resolved' = Some(resolve(resolver, staged_files))
    /\ cpc' = "done"
    /\ UNCHANGED <<staged_files, marker_dirs, ck_config, packages, suggested_scope, resolver,
                   multi_package, warnings, branch, branch_rules, catVars, ruleVars, parseVars, inferVars, cmdVars>>

\* ScopeResolver::is_multi_package(staged_files)
IsMultiPackage ==
    /\ cpc = "done"
    /\ multi_package = None
    /\ multi_package' = Some(is_multi_package(resolver, staged_files))
    /\ UNCHANGED <<staged_files, marker_dirs, ck_config, packages, suggested_scope, resolver,
                   resolved, warnings, branch, branch_rules, cpc, catVars, ruleVars, parseVars,
                   inferVars, cmdVars>>

NextScope == DetectPackages \/ InferScope \/ Resolve \/ IsMultiPackage

(***************************************************************************)
(* Case-insensitivity of the categorizer.                                  *)
(***************************************************************************)
\* C20: categorize_file gives a path the category it gives to a variant of
\* the path that differs only in letter case, the extension included: the
\* category of the path is that of its lowercased variant.
C20_CaseInsensitive ==
    category # "Unset" => category = categorize_file(to_lowercase(path))

(***************************************************************************)
(* Properties of the scope resolution.                                     *)
(***************************************************************************)
\* the packages of the context that have changes
ChangedOfContext == SelectSeq(packages, HasChanges)

\* the packages of the resolver that have changes
ChangedOfResolver == changed_packages(resolver, staged_files)

\* C13: when exactly one package has changes, infer_scope returns that
\* package's name, and ScopeResolver::resolve returns the scope of the one
\* package of the resolver that has changes.
C13_SinglePackageScope ==
    /\ (cpc \in {"inferred", "done"} /\ Len(ChangedOfContext) = 1) =>
          unwrap(suggested_scope) = Some(ChangedOfContext[1].name)
    /\ (cpc = "done" /\ Len(ChangedOfResolver) = 1) =>
          unwrap(resolved) = Some(ChangedOfResolver[1].scope)

\* crates/core/src/lib.rs staged with a package configured at crates/core
\* scoped "core": both resolutions give "core"
C13_Witness ==
    /\ cpc = "done"
    /\ staged_files = <<<<"c", "r", "a", "t", "e", "s", "/", "c", "o", "r", "e", "/", "s", "r", "c", "/", "l", "i", "b", ".", "r", "s">>>>
    /\ Len(ChangedOfContext) = 1
    /\ Len(ChangedOfResolver) = 1
    /\ unwrap(suggested_scope) = Some(<<"c", "o", "r", "e">>)
    /\ unwrap(resolved) = Some(<<"c", "o", "r", "e">>)

\* C14: when two or more packages have changes, infer_scope and
\* ScopeResolver::resolve both return None.
C14_MultiplePackagesNoScope ==
    /\ (cpc \in {"inferred", "done"} /\ Len(ChangedOfContext) >= 2) =>
          unwrap(suggested_scope) = None
    /\ (cpc = "done" /\ Len(ChangedOfResolver) >= 2) =>
          unwrap(resolved) = None

\* the longest common directory of the staged files: the common components
\* of their parent directories
CommonDirectory == common_over_parents(components(unwrap(parent(staged_files[1]))),
                                       Tail(staged_files))

\* the final components of the staged files
FileNames == {unwrap(final_component(staged_files[i])) : i \in 1..Len(staged_files)}

\* the fallback scope of C15: the name of the common directory, the root
\* scope when there is none or when it is "src"
FallbackScope ==
    IF CommonDirectory # <<>> /\ CommonDirectory[Len(CommonDirectory)] # <<"s", "r", "c">>
    THEN Some(CommonDirectory[Len(CommonDirectory)])
    ELSE Some(ck_config.monorepo.root_scope)

\* C15: when no package has changes and files are staged, the scope is the
\* name of the longest common directory of the files, never "src" and never
\* a file name, and the configured root scope otherwise.
C15_CommonDirectoryFallback ==
    /\ (cpc \in {"inferred", "done"} /\ staged_files # <<>> /\ Len(ChangedOfContext) = 0) =>
          /\ unwrap(suggested_scope) = FallbackScope
          /\ unwrap(suggested_scope) # Some(<<"s", "r", "c">>)
          /\ \A f \in FileNames : unwrap(suggested_scope) # Some(f)
    /\ (cpc = "done" /\ staged_files # <<>> /\ Len(ChangedOfResolver) = 0) =>
          /\ unwrap(resolved) = FallbackScope
          /\ unwrap(resolved) # Some(<<"s", "r", "c">>)
          /\ \A f \in FileNames : unwrap(resolved) # Some(f)

\* the packages detect_packages registered by auto-detection: those after
\* the configured ones
AutoDetectedPackages ==
    SubSeq(packages, Len(ck_config.monorepo.packages) + 1, Len(packages))

\* C25: auto-detection stops at the first marker found per file: for a single
\* changed file detect_packages registers at most one auto-detected package,
\* the nearest ancestor directory holding a marker, and no shallower ancestor
\* that holds one too, so that the file alone makes at most one
\* auto-detected package show changes.
C25_FirstMarkerOnly ==
    (cpc \in {"detected", "inferred", "done"} /\ ck_config.monorepo.enabled
        /\ Len(staged_files) = 1) =>
        /\ Len(AutoDetectedPackages) <= 1
        /\ \A i \in 1..Len(AutoDetectedPackages) :
              \A d \in marker_dirs :
                  path_starts_with(staged_files[1], d)
                      => path_starts_with(AutoDetectedPackages[i].path, d)

\* package p of the resolver holds every staged file, and no deeper package
\* of the resolver holds any of them
InnermostForAll(p) ==
    /\ staged_files # <<>>
    /\ \A i \in 1..Len(staged_files) : path_starts_with(staged_files[i], p.path)
    /\ \A q \in Range(resolver.packages) :
          Len(components(q.path)) > Len(components(p.path))
              => \A i \in 1..Len(staged_files) : ~path_starts_with(staged_files[i], q.path)

\* C26: a file inside nested packages is attributed to the deepest of them
\* only, in whatever order the packages were registered: a file set lying
\* entirely inside one inner package resolves to that package's scope and is
\* not reported as multi-package.
C26_DeepestPackageWins ==
    \A p \in Range(resolver.packages) :
        InnermostForAll(p) =>
            /\ is_some(resolved) => unwrap(resolved) = Some(p.scope)
            /\ is_some(multi_package) => unwrap(multi_package) = FALSE

\* a file of crates/core resolved by a resolver that registered crates
\* before crates/core: the scope is core and the set is not multi-package
C26_Witness ==
    /\ Len(resolver.packages) = 2
    /\ resolver.packages[1] = PackageInfo(<<"c", "r", "a", "t", "e", "s">>, <<"a", "l", "l">>)
    /\ resolver.packages[2] = PackageInfo(<<"c", "r", "a", "t", "e", "s", "/", "c", "o", "r", "e">>, <<"c", "o", "r", "e">>)
    /\ staged_files = <<<<"c", "r", "a", "t", "e", "s", "/", "c", "o", "r", "e", "/", "s", "r", "c", "/", "l", "i", "b", ".", "r", "s">>>>
    /\ resolved = Some(Some(<<"c", "o", "r", "e">>))
    /\ multi_package = Some(FALSE)

(***************************************************************************)
(* Inputs of the warning generator.                                        *)
(***************************************************************************)
WarnFiles ==
    {<<"s", "r", "c", "/", "m", "a", "i", "n", ".", "r", "s">>, <<"t", "e", "s", "t", "s", "/", "t", "e", "s", "t", "_", "m", "a", "i", "n", ".", "r", "s">>, <<"R", "E", "A", "D", "M", "E", ".", "m", "d">>, <<"d", "o", "c", "s", "/", "t", "e", "s", "t", "i", "n", "g", ".", "m", "d">>,
     <<".", "e", "n", "v">>, <<"c", "o", "n", "f", "i", "g", "/", "s", "e", "c", "r", "e", "t", "_", "k", "e", "y", ".", "p", "e", "m">>, <<"s", "r", "c", "/", "T", "e", "s", "t", "U", "t", "i", "l", ".", "j", "a", "v", "a">>, <<"d", "o", "c", "s", "/", "a", "p", "i", "_", "k", "e", "y", "s", ".", "m", "d">>}

WarnFileLists == UNION {[1..n -> WarnFiles] : n \in 0..MaxFiles}

\* lines added, lines removed and binary files: an empty diff, exactly the
\* size threshold, one line above it with a binary file
WarnStats == {<<0, 0, 0>>, <<300, 200, 0>>, <<300, 201, 1>>}

\* the DiffInfo of the staged files, all modified
WarnDiff(fs, st) ==
    [DiffInfo([i \in 1..Len(fs) |-> FileChange(fs[i], "Modified")], <<st[1], st[2]>>,
              <<"+", "l", "e", "t", " ", "x", " ", "=", " ", "1", ";">>)
        EXCEPT !.stats.binary_files = st[3]]

WarnPackages ==
    {<<>>,
     <<Package(<<"c", "r", "a", "t", "e", "s", "/", "c", "o", "r", "e">>, <<"c", "o", "r", "e">>, FALSE)>>,
     <<Package(<<"c", "r", "a", "t", "e", "s", "/", "c", "o", "r", "e">>, <<"c", "o", "r", "e">>, TRUE)>>,
     <<Package(<<"c", "r", "a", "t", "e", "s", "/", "c", "o", "r", "e">>, <<"c", "o", "r", "e">>, TRUE), Package(<<"c", "r", "a", "t", "e", "s", "/", "c", "l", "i">>, <<"c", "l", "i">>, TRUE)>>}

WarnConfigs == {CkConfig(TRUE, <<>>, rs, <<>>, <<>>, <<>>, <<>>) : rs \in BOOLEAN}

\* generate_warnings(diff, staged_files, packages, config)
GenerateWarnings ==
    /\ cpc = "warn"
    /\ warnings' = Some(generate_warnings(diff, staged_files, packages, ck_config))
    /\ cpc' = "warned"
    /\ UNCHANGED <<staged_files, marker_dirs, ck_config, packages, suggested_scope, resolver,
                   resolved, multi_package, branch, branch_rules, catVars, ruleVars, parseVars, inferVars, cmdVars>>

NextWarn == GenerateWarnings

(***************************************************************************)
(* Properties of the warning generator.                                    *)
(***************************************************************************)
CheckOrder ==
    <<"oversized-commit", "multiple-packages", "mixed-concerns", "missing-scope",
      "risky-changes", "binary-files">>

\* the position of a warning code in the check order
CheckRank(code) == CHOOSE k \in 1..Len(CheckOrder) : CheckOrder[k] = code

\* the codes of the warnings returned, in order
WarningCodes == [i \in 1..Len(unwrap(warnings)) |-> unwrap(warnings)[i].code]

\* the lowercased path contains one of the risky patterns
RiskyFile(f) == \E k \in 1..Len(risky_patterns) : contains(to_lowercase(f), risky_patterns[k])

IsRiskyWarning(w) == w.code = "risky-changes"

\* the files named by the risky-changes warnings, in the order returned
RiskyWarned ==
    [i \in 1..Len(SelectSeq(unwrap(warnings), IsRiskyWarning)) |->
        unwrap(SelectSeq(unwrap(warnings), IsRiskyWarning)[i].file)]

\* C16: the warnings come in check order (oversized-commit, multiple-packages,
\* mixed-concerns, missing-scope, risky-changes in file order, binary-files),
\* and every code but risky-changes appears at most once.
C16_CheckOrder ==
    cpc = "warned" =>
        /\ \A i, j \in 1..Len(WarningCodes) :
              i < j => /\ CheckRank(WarningCodes[i]) <= CheckRank(WarningCodes[j])
                       /\ WarningCodes[i] = WarningCodes[j] =>
                              WarningCodes[i] = "risky-changes"
        /\ RiskyWarned = SelectSeq(staged_files, RiskyFile)

\* an oversized commit over two packages with mixed concerns, a risky file
\* and a binary file: five warnings, in check order
C16_Witness ==
    /\ cpc = "warned"
    /\ WarningCodes = <<"oversized-commit", "multiple-packages", "mixed-concerns",
                        "risky-changes", "binary-files">>

\* C17: a missing-scope warning, of level Info, is emitted exactly when the
\* configuration requires a scope and no package has changes, for every
\* list of staged files, the empty one included.
C17_MissingScope ==
    cpc = "warned" =>
        /\ (\E i \in 1..Len(WarningCodes) : WarningCodes[i] = "missing-scope")
              <=> (ck_config.require_scope /\ Len(SelectSeq(packages, HasChanges)) = 0)
        /\ \A i \in 1..Len(unwrap(warnings)) :
              unwrap(warnings)[i].code = "missing-scope" => unwrap(warnings)[i].level = "Info"

\* C18: there is exactly one risky-changes warning, of level Error, for each
\* staged file whose lowercased path contains a risky pattern and none for
\* the other files; has_errors() is true exactly when some file matches.
C18_RiskyChanges ==
    cpc = "warned" =>
        /\ RiskyWarned = SelectSeq(staged_files, RiskyFile)
        /\ \A i \in 1..Len(unwrap(warnings)) :
              unwrap(warnings)[i].code = "risky-changes" => unwrap(warnings)[i].level = "Error"
        /\ has_errors(unwrap(warnings))
              <=> \E i \in 1..Len(staged_files) : RiskyFile(staged_files[i])

\* config/secret_key.pem matches "secret" and "key" and gets one warning,
\* a clean file beside it none
C18_Witness ==
    /\ cpc = "warned"
    /\ staged_files = <<<<"s", "r", "c", "/", "m", "a", "i", "n", ".", "r", "s">>, <<"c", "o", "n", "f", "i", "g", "/", "s", "e", "c", "r", "e", "t", "_", "k", "e", "y", ".", "p", "e", "m">>>>
    /\ Cardinality(risky_hits(<<"c", "o", "n", "f", "i", "g", "/", "s", "e", "c", "r", "e", "t", "_", "k", "e", "y", ".", "p", "e", "m">>)) = 2
    /\ Len(SelectSeq(unwrap(warnings), IsRiskyWarning)) = 1
    /\ has_errors(unwrap(warnings))

(***************************************************************************)
(* Inputs of the branch rules.                                             *)
(***************************************************************************)
MaxBranchRules == 2
MaxCalls == 2

BranchRulePool ==
    {BranchRule(<<"m", "a", "i", "n">>, <<<<"w", "i", "p">>>>),
     BranchRule(<<"f", "e", "a", "t", "u", "r", "e", "/", "l", "o", "g", "i", "n">>, <<<<"d", "o", "c", "s">>>>),
     BranchRule(<<"f", "e", "a", "t", "u", "r", "e", "/", "*">>, <<<<"c", "h", "o", "r", "e">>>>),
     BranchRule(<<"f", "e", "a", "t", "*">>, <<<<"s", "t", "y", "l", "e">>>>),
     BranchRule(<<"*">>, <<<<"r", "e", "v", "e", "r", "t">>>>),
     BranchRule(<<"r", "e", "l", "e", "a", "s", "e", "/", "[", "*">>, <<<<"f", "e", "a", "t">>>>)}

\* the branch section as configured: entries with distinct keys, in file order
BranchSections ==
    {s \in UNION {[1..n -> BranchRulePool] : n \in 0..MaxBranchRules} :
        \A i, j \in 1..Len(s) : i # j => s[i].pattern # s[j].pattern}

\* the iteration orders a HashMap of these entries can have
IterationOrders(s) ==
    {t \in [1..Len(s) -> Range(s)] : \A i, j \in 1..Len(s) : i # j => t[i] # t[j]}

BranchConfigs ==
    UNION {{CkConfig(TRUE, <<>>, FALSE, <<>>, <<>>, s, t) : t \in IterationOrders(s)} :
                s \in BranchSections}

BranchNames == {None, Some(<<"m", "a", "i", "n">>), Some(<<"f", "e", "a", "t", "u", "r", "e", "/", "l", "o", "g", "i", "n">>), Some(<<"r", "e", "l", "e", "a", "s", "e", "/", "1", ".", "0">>)}

\* RuleEngine::get_branch_rules()
GetBranchRules ==
    /\ cpc = "branch"
    /\ Len(branch_rules) < MaxCalls
    /\ branch_rules' = Append(branch_rules, get_branch_rules(ck_config, branch))
    /\ UNCHANGED <<staged_files, marker_dirs, ck_config, packages, suggested_scope, resolver,
                   resolved, multi_package, warnings, branch, cpc, catVars, ruleVars, parseVars, inferVars, cmdVars>>

NextBranch == GetBranchRules

(***************************************************************************)
(* Properties of the branch rules.                                         *)
(***************************************************************************)
\* the entry is a glob pattern that matches the branch name
GlobEntryMatches(e, name) ==
    contains(e.pattern, <<"*">>) /\ valid_pattern(e.pattern) /\ glob_matches(e.pattern, name)

\* the lookup of C19 over the entries as configured: the exact entry, else
\* the first matching glob entry, else none
ConfiguredLookup(entries, name) ==
    IF \E i \in 1..Len(entries) : entries[i].pattern = name
    THEN Some(entries[CHOOSE i \in 1..Len(entries) : entries[i].pattern = name])
    ELSE IF \E i \in 1..Len(entries) : GlobEntryMatches(entries[i], name)
    THEN Some(entries[CHOOSE i \in 1..Len(entries) :
                        /\ GlobEntryMatches(entries[i], name)
                        /\ \A j \in 1..(i - 1) : ~GlobEntryMatches(entries[j], name)])
    ELSE None

\* C19: get_branch_rules returns the entry whose key is the branch name when
\* there is one, otherwise the first glob entry in configuration order that
\* matches, otherwise none; every call returns the same.
C19_BranchLookup ==
    (cpc = "branch" /\ is_some(branch)) =>
        /\ \A i \in 1..Len(branch_rules) :
              branch_rules[i] = ConfiguredLookup(ck_config.branch_configured, unwrap(branch))
        /\ \A i, j \in 1..Len(branch_rules) : branch_rules[i] = branch_rules[j]

(***************************************************************************)
(* Check command: run_check, src/cli/dispatch.rs; check_range,             *)
(* check_commit and validate_string, src/rules/engine.rs                   *)
(***************************************************************************)
\* a commit as git::get_commit_range returns it: the id and the message text
Commit(oid, message_text) == [oid |-> oid, message |-> message_text]

\* Result<Vec<ValidationResult>>: the results, an error, or the panic that
\* CommitMessage::parse raised
Checked(results) == [tag |-> "Ok", results |-> results, kind |-> "none"]
Failed(tag, kind) == [tag |-> tag, results |-> <<>>, kind |-> kind]

\* validate_string once CommitMessage::parse has returned parsed
validate_parsed(cfg, rules, parsed_text) ==
    IF parsed_text.tag = "Ok"
    THEN Checked(<<validate(cfg, rules, parsed_text.msg)>>)
    ELSE Failed(parsed_text.tag, parsed_text.kind)

\* RuleEngine::validate_string: Checked(<<result>>) when the text parses
validate_string(cfg, rules, message_text) ==
    validate_parsed(cfg, rules, parse(message_text))

\* the loop of check_range over the commits not yet validated
RECURSIVE range_results(_, _, _, _)

\* one iteration of the loop: `?` on the outcome of validate_string, then
\* the commit id is set and the result pushed
range_step(cfg, rules, commits, results, outcome) ==
    IF outcome.tag # "Ok" THEN outcome
    ELSE range_results(cfg, rules, Tail(commits),
                       Append(results,
                              [outcome.results[1]
                                  EXCEPT !.commit_sha = Some(Head(commits).oid)]))

range_results(cfg, rules, commits, results) ==
    IF commits = <<>> THEN Checked(results)
    ELSE range_step(cfg, rules, commits, results,
                    validate_string(cfg, rules, Head(commits).message))

\* RuleEngine::check_range; repo is what git::get_commit_range returns, None
\* standing for its error
check_range(cfg, rules, repo) ==
    IF is_none(repo) THEN Failed("Err", "Git")
    ELSE range_results(cfg, rules, unwrap(repo), <<>>)

\* RuleEngine::check_commit; repo holds the one commit the reference names
check_commit(cfg, rules, repo) ==
    IF is_none(repo) THEN Failed("Err", "Git")
    ELSE validate_string(cfg, rules, unwrap(repo)[1].message)

\* the settings run_check reads: cli.ci, args.strict, config.rules.ci.strict,
\* and whether the target is a range (args.range or ".." in args.target)
CheckCall(ci, strict, ci_strict, range) ==
    [ci |-> ci, strict |-> strict, ci_strict |-> ci_strict, range |-> range]

is_strict_flag_only(call) == call.strict

\* let strict (dispatch.rs:105)
is_strict(call) == call.strict \/ (call.ci /\ call.ci_strict)

\* let results (dispatch.rs:107-111), with RuleEngine::new(config)
collect_results(cfg, call, repo) ==
    IF call.range THEN check_range(cfg, <<>>, repo) ELSE check_commit(cfg, <<>>, repo)

\* the flags set by the loop of run_check over the results
check_has_errors(results) == \E i \in 1..Len(results) : results[i].errors # <<>>
check_has_warnings(results) == \E i \in 1..Len(results) : results[i].warnings # <<>>

\* results.iter().map(|r| r.errors.len()).sum()
RECURSIVE errors_count(_)
errors_count(results) ==
    IF results = <<>> THEN 0 ELSE Len(Head(results).errors) + errors_count(Tail(results))

\* Result<()> of run_check
ExitOk == [tag |-> "Ok", kind |-> "none", count |-> 0]
ValidationFailed(count) == [tag |-> "Err", kind |-> "Validation", count |-> count]
Propagated(outcome) == [tag |-> outcome.tag, kind |-> outcome.kind, count |-> 0]

\* the exit status of run_check once the results are collected
exit_of(call, outcome) ==
    IF outcome.tag # "Ok" THEN Propagated(outcome)
    ELSE IF check_has_errors(outcome.results)
            \/ (is_strict(call) /\ check_has_warnings(outcome.results))
    THEN ValidationFailed(errors_count(outcome.results))
    ELSE ExitOk

\* run_check
run_check(cfg, call, repo) == exit_of(call, collect_results(cfg, call, repo))

(***************************************************************************)
(* Inputs of the check command: ranges of up to MaxCommits commits.        *)
(***************************************************************************)
MaxCommits == 2

\* messages that validate cleanly, with warnings only, with an error, with
\* both; one that parse rejects and one on which it panics
CommitTexts ==
    {<<"f", "e", "a", "t", ":", " ", "a", "d", "d", " ", "n", "e", "w", " ", "f", "e", "a", "t", "u", "r", "e">>, <<"f", "e", "a", "t", ":", " ", "A", "d", "d", "e", "d", " ", "s", "t", "u", "f", "f", ".">>, <<"f", "i", "x", ":", " ", "a", "b">>, <<"w", "i", "p", ":", " ", "A", "d", "d", "e", "d", " ", "s", "t", "u", "f", "f">>,
     <<"a", "d", "d", "e", "d", " ", "s", "t", "u", "f", "f">>, <<"f", "e", "a", "t", ")", "(", ":", " ", "x">>}

\* the commit at position i of the walk
CommitAt(i, message_text) == Commit(<<"commit", i>>, message_text)

CommitLists ==
    UNION {{[i \in 1..n |-> CommitAt(i, f[i])] : f \in [1..n -> CommitTexts]} : n \in 0..MaxCommits}

\* the answers of the repository: an error, the commits of a range, or the
\* one commit of a single reference
RangeAnswers == {None} \cup {Some(cs) : cs \in CommitLists}
CommitAnswers == {None} \cup {Some(cs) : cs \in {l \in CommitLists : Len(l) = 1}}

CheckCalls == {CheckCall(ci, st, cs, rg) : ci \in BOOLEAN, st \in BOOLEAN, cs \in BOOLEAN, rg \in BOOLEAN}

CheckConfigs == {DefaultConfig, RulesConfig(11, 2, TRUE, FALSE, <<>>, <<>>, <<>>)}

\* run_check(cli, config, args)
RunCheck ==
    /\ exit_status = None
    /\ check_results' = Some(collect_results(config, check_call, git_commits))
    /\ exit_status' = Some(run_check(config, check_call, git_commits))
    /\ UNCHANGED <<git_commits, check_call, call_messages, calls, given, hook_file, backup_file,
                   dir_start, dir_before, hook_outcome, catVars, ruleVars, parseVars, inferVars,
                   ctxVars>>

NextCheck == RunCheck

(***************************************************************************)
(* Properties of the check command.                                        *)
(***************************************************************************)
\* the caller is strict: --strict, or --ci with rules.ci.strict
StrictCaller == check_call.strict \/ (check_call.ci /\ check_call.ci_strict)

ResultsWithErrors ==
    {i \in 1..Len(unwrap(check_results).results) : unwrap(check_results).results[i].errors # <<>>}

ResultsWithWarnings ==
    {i \in 1..Len(unwrap(check_results).results) :
        unwrap(check_results).results[i].warnings # <<>>}

FirstUnparsed(commits) ==
    CHOOSE i \in 1..Len(commits) :
        /\ parse(commits[i].message).tag # "Ok"
        /\ \A j \in 1..(i - 1) : parse(commits[j].message).tag = "Ok"

\* C27: check_range returns one result per commit of the range, in the order
\* the repository supplied the commits, result i carrying the id of commit i;
\* if the message of any commit does not parse, the call returns that parse
\* error and no results.
C27_RangeResults ==
    (is_some(check_results) /\ check_call.range /\ is_some(git_commits)) =>
        IF \A i \in 1..Len(unwrap(git_commits)) : parse(unwrap(git_commits)[i].message).tag = "Ok"
        THEN /\ unwrap(check_results).tag = "Ok"
             /\ Len(unwrap(check_results).results) = Len(unwrap(git_commits))
             /\ \A i \in 1..Len(unwrap(git_commits)) :
                   /\ unwrap(check_results).results[i].commit_sha
                         = Some(unwrap(git_commits)[i].oid)
                   /\ unwrap(check_results).results[i].message
                         = format(parse(unwrap(git_commits)[i].message).msg)
        ELSE /\ unwrap(check_results).tag = "Err"
             /\ unwrap(check_results).kind
                   = parse(unwrap(git_commits)[FirstUnparsed(unwrap(git_commits))].message).kind
             /\ unwrap(check_results).results = <<>>

(***************************************************************************)
(* Concurrent validation: RuleEngine::validate called by several callers   *)
(* on one engine (&self), src/rules/engine.rs.  A call is followed through *)
(* its statements; its result is a local of the call.                      *)
(***************************************************************************)
\* the local state of a validate call: its position, its `result` local, the
\* index of the custom rule the loop is at, the value returned, and whether
\* another call was in progress when this one began
ValidateCall(pc, r, next_rule, returned, overlapped) ==
    [pc |-> pc, result |-> r, next_rule |-> next_rule, returned |-> returned,
     overlapped |-> overlapped]

NotCalled == ValidateCall("start", None, 1, None, FALSE)

Callers == 1..Len(calls)

InProgress(t) == calls[t].pc \in {"new", "custom"}

result_slot_shared(t) == 1

\* the `result` that call t writes to: its own local (engine.rs:37)
result_slot(t) == t

\* let mut result = ValidationResult::new(message.format())
ValidateNew(t) ==
    /\ calls[t].pc = "start"
    /\ calls' = [[calls EXCEPT ![t].pc = "new",
                               ![t].overlapped = \E u \in Callers : InProgress(u)]
                    EXCEPT ![result_slot(t)].result =
                               Some(ValidationResult_new(format(call_messages[t])))]
    /\ UNCHANGED <<git_commits, check_call, check_results, exit_status, call_messages, given,
                   hook_file, backup_file, dir_start, dir_before, hook_outcome, catVars,
                   ruleVars, parseVars, inferVars, ctxVars>>

\* apply_builtin_rules and the loop over its issues (engine.rs:40-47)
ValidateBuiltin(t) ==
    /\ calls[t].pc = "new"
    /\ calls' = [[calls EXCEPT ![t].pc = "custom", ![t].next_rule = 1]
                    EXCEPT ![result_slot(t)].result =
                               Some(push_issues(unwrap(calls[result_slot(t)].result),
                                                apply_builtin_rules(call_messages[t], config)))]
    /\ UNCHANGED <<git_commits, check_call, check_results, exit_status, call_messages, given,
                   hook_file, backup_file, dir_start, dir_before, hook_outcome, catVars,
                   ruleVars, parseVars, inferVars, ctxVars>>

\* one iteration of the loop over the custom rules (engine.rs:50-58)
ValidateCustom(t) ==
    /\ calls[t].pc = "custom"
    /\ calls[t].next_rule <= Len(custom_rules)
    /\ calls' = [[calls EXCEPT ![t].next_rule = @ + 1]
                    EXCEPT ![result_slot(t)].result =
                               Some(push_issues(unwrap(calls[result_slot(t)].result),
                                                check(custom_rules[calls[t].next_rule],
                                                      call_messages[t], config)))]
    /\ UNCHANGED <<git_commits, check_call, check_results, exit_status, call_messages, given,
                   hook_file, backup_file, dir_start, dir_before, hook_outcome, catVars,
                   ruleVars, parseVars, inferVars, ctxVars>>

\* the loop is over: validate returns its result (engine.rs:60)
ValidateReturn(t) ==
    /\ calls[t].pc = "custom"
    /\ calls[t].next_rule > Len(custom_rules)
    /\ calls' = [calls EXCEPT ![t].pc = "returned",
                              ![t].returned = calls[result_slot(t)].result]
    /\ UNCHANGED <<git_commits, check_call, check_results, exit_status, call_messages, given,
                   hook_file, backup_file, dir_start, dir_before, hook_outcome, catVars,
                   ruleVars, parseVars, inferVars, ctxVars>>

NextValidate ==
    \E t \in Callers :
        \/ ValidateNew(t)
        \/ ValidateBuiltin(t)
        \/ ValidateCustom(t)
        \/ ValidateReturn(t)

(***************************************************************************)
(* Inputs of the concurrent validation: MaxCalls callers, an engine with   *)
(* up to MaxCustomRules custom rules.                                      *)
(***************************************************************************)
\* a message with warnings only and one with errors under the default rules
CallMessages ==
    {CommitMessage("Feat", None, <<"A", "d", "d", "e", "d", " ", "s", "t", "u", "f", "f", ".">>, None, None, FALSE),
     CommitMessage("Wip", Some(<<"c", "o", "r", "e">>), <<"a", "b">>, Some(<<"d", "e", "t", "a", "i", "l", "s">>), None, TRUE)}

\* the custom rules in the order the engine registered them
RegisteredRules ==
    <<[name |-> "footer-required"], [name |-> "no-breaking"], [name |-> "body-advised"]>>

RuleLists == {SubSeq(RegisteredRules, 1, n) : n \in 0..MaxCustomRules}

\* the engine and the messages as the callers built them
Given(cfg, rules, messages) == [config |-> cfg, custom_rules |-> rules, messages |-> messages]

(***************************************************************************)
(* Properties of the concurrent validation.                                *)
(***************************************************************************)
\* C22: validate never modifies the engine, its configuration, its custom
\* rules or the message, and under any interleaving of validate calls on one
\* engine each call returns exactly the errors and warnings of a lone
\* sequential call on its message.
C22_Reentrant ==
    is_some(given) =>
        /\ config = unwrap(given).config
        /\ custom_rules = unwrap(given).custom_rules
        /\ call_messages = unwrap(given).messages
        /\ \A t \in Callers :
              calls[t].pc = "returned" =>
                  /\ unwrap(calls[t].returned).errors
                        = validate(config, custom_rules, call_messages[t]).errors
                  /\ unwrap(calls[t].returned).warnings
                        = validate(config, custom_rules, call_messages[t]).warnings
                  /\ unwrap(calls[t].returned).message = format(call_messages[t])

\* two calls on different messages, the second begun while the first was in
\* progress, both returned, on an engine with two custom rules
C22_Witness ==
    /\ is_some(given)
    /\ Len(custom_rules) = 2
    /\ calls[1].pc = "returned"
    /\ calls[2].pc = "returned"
    /\ calls[2].overlapped
    /\ call_messages[1] # call_messages[2]
    /\ unwrap(calls[1].returned).errors # <<>>
    /\ unwrap(calls[2].returned).warnings # <<>>
    /\ unwrap(calls[1].returned) # unwrap(calls[2].returned)

(***************************************************************************)
(* Hook manager: src/hooks/manager.rs.  The hooks directory is followed    *)
(* for one hook: the file at the hook path and the file at <hook>.backup.  *)
(* File operations succeed and hook files are readable text.               *)
(***************************************************************************)
\* HookTemplate::generate: the script written at the hook path
generate == <<"#", "!", "/", "b", "i", "n", "/", "s", "h", "\n", "#", " ", "C", "K", " ", "G", "i", "t", " ", "H", "o", "o", "k", "\n", "#", " ", "G", "e", "n", "e", "r", "a", "t", "e", "d", " ", "b", "y", " ", "c", "k", " ", "v", "0", ".", "1", ".", "0", "\n">>

\* a file of the hooks directory: its bytes, and whether they are valid UTF-8
HookFile(utf8, content) == [utf8 |-> utf8, content |-> content]

\* Result<bool> of is_ck_hook
IsCk(ours) == [tag |-> "Ok", ours |-> ours]
ReadFailed == [tag |-> "Err", ours |-> FALSE]

\* HookManager::is_ck_hook: fs::read_to_string fails on bytes that are not
\* UTF-8, else the content is searched for the two markers
is_ck_hook(file) ==
    IF ~file.utf8 THEN ReadFailed
    ELSE IsCk(contains(file.content, <<"C", "K", " ", "G", "i", "t", " ", "H", "o", "o", "k">>)
                 \/ contains(file.content, <<"G", "e", "n", "e", "r", "a", "t", "e", "d", " ", "b", "y", " ", "c", "k">>))

\* the two files of the hook; None for a missing file
HooksDir(hook, backup) == [hook |-> hook, backup |-> backup]

\* the directory an operation leaves and the Result it returns
HookResult(dir, r) == [dir |-> dir, result |-> r]

install_template_no_backup(dir, force) ==
    IF is_none(dir.hook) THEN HookResult(HooksDir(Some(HookFile(TRUE, generate)), dir.backup), "Ok")
    ELSE IF is_ck_hook(unwrap(dir.hook)).tag = "Err" THEN HookResult(dir, "ExecutionFailed")
    ELSE IF ~force /\ ~is_ck_hook(unwrap(dir.hook)).ours THEN HookResult(dir, "AlreadyExists")
    ELSE HookResult(HooksDir(Some(HookFile(TRUE, generate)), dir.backup), "Ok")

\* HookManager::install_template: refuse a hook that is not ours unless
\* forced, rename a hook that is not ours to the backup path, write the script
install_template(dir, force) ==
    IF is_none(dir.hook) THEN HookResult(HooksDir(Some(HookFile(TRUE, generate)), dir.backup), "Ok")
    ELSE IF is_ck_hook(unwrap(dir.hook)).tag = "Err" THEN HookResult(dir, "ExecutionFailed")
    ELSE IF ~force /\ ~is_ck_hook(unwrap(dir.hook)).ours THEN HookResult(dir, "AlreadyExists")
    ELSE HookResult(HooksDir(Some(HookFile(TRUE, generate)),
                             IF is_ck_hook(unwrap(dir.hook)).ours THEN dir.backup ELSE dir.hook),
                    "Ok")

\* HookManager::uninstall_hook: nothing to do for a missing hook, refuse a
\* hook that is not ours, else remove the hook and rename the backup, if any,
\* back
uninstall_hook(dir) ==
    IF is_none(dir.hook) THEN HookResult(dir, "Ok")
    ELSE IF is_ck_hook(unwrap(dir.hook)).tag = "Err" THEN HookResult(dir, "ExecutionFailed")
    ELSE IF ~is_ck_hook(unwrap(dir.hook)).ours THEN HookResult(dir, "RemoveFailed")
    ELSE HookResult(HooksDir(dir.backup, None), "Ok")

\* the last operation on the hook and the Result it returned
HookOutcome(op, force, r) == [op |-> op, force |-> force, result |-> r]

(***************************************************************************)
(* Inputs of the hook manager: the files found in the hooks directory.     *)
(***************************************************************************)
\* two scripts of the user, the script of this version, a script written by
\* an earlier version, and a compiled hook of the user
HookContents ==
    {HookFile(TRUE, <<"#", "!", "/", "b", "i", "n", "/", "s", "h", "\n", "e", "x", "i", "t", " ", "0", "\n">>), HookFile(TRUE, <<"#", "!", "/", "b", "i", "n", "/", "s", "h", "\n", "n", "p", "m", " ", "t", "e", "s", "t", "\n">>),
     HookFile(TRUE, generate), HookFile(TRUE, <<"#", "!", "/", "b", "i", "n", "/", "s", "h", "\n", "#", " ", "G", "e", "n", "e", "r", "a", "t", "e", "d", " ", "b", "y", " ", "c", "k", " ", "v", "0", ".", "0", ".", "9", "\n">>),
     HookFile(FALSE, <<"E", "L", "F">>)}

HookFiles == {None} \cup {Some(f) : f \in HookContents}

\* HookManager::install_hook(hook, force)
InstallHook(force) ==
    /\ is_some(dir_start)
    /\ hook_file' = install_template(HooksDir(hook_file, backup_file), force).dir.hook
    /\ backup_file' = install_template(HooksDir(hook_file, backup_file), force).dir.backup
    /\ dir_before' = Some(HooksDir(hook_file, backup_file))
    /\ hook_outcome' =
          Some(HookOutcome("install", force,
                           install_template(HooksDir(hook_file, backup_file), force).result))
    /\ UNCHANGED <<git_commits, check_call, check_results, exit_status, call_messages, calls,
                   given, dir_start, catVars, ruleVars, parseVars, inferVars, ctxVars>>

\* HookManager::uninstall_hook(hook)
UninstallHook ==
    /\ is_some(dir_start)
    /\ hook_file' = uninstall_hook(HooksDir(hook_file, backup_file)).dir.hook
    /\ backup_file' = uninstall_hook(HooksDir(hook_file, backup_file)).dir.backup
    /\ dir_before' = Some(HooksDir(hook_file, backup_file))
    /\ hook_outcome' =
          Some(HookOutcome("uninstall", FALSE,
                           uninstall_hook(HooksDir(hook_file, backup_file)).result))
    /\ UNCHANGED <<git_commits, check_call, check_results, exit_status, call_messages, calls,
                   given, dir_start, catVars, ruleVars, parseVars, inferVars, ctxVars>>

NextHooks ==
    \/ \E force \in BOOLEAN : InstallHook(force)
    \/ UninstallHook

(***************************************************************************)
(* Properties of the hook manager.                                         *)
(***************************************************************************)
\* the hook path holds a hook that ck did not write: its bytes carry neither
\* marker
foreign_hook(dir) ==
    /\ is_some(dir.hook)
    /\ ~contains(unwrap(dir.hook).content, <<"C", "K", " ", "G", "i", "t", " ", "H", "o", "o", "k">>)
    /\ ~contains(unwrap(dir.hook).content, <<"G", "e", "n", "e", "r", "a", "t", "e", "d", " ", "b", "y", " ", "c", "k">>)

\* the hook path holds a hook that ck wrote
ck_hook(dir) == is_some(dir.hook) /\ ~foreign_hook(dir)

\* before the first operation the user's own hook is at the hook path and
\* there is no backup file
StartedWithUserHook ==
    /\ is_some(dir_start)
    /\ foreign_hook(unwrap(dir_start))
    /\ unwrap(dir_start).backup = None

\* the last operation was an uninstall_hook that removed a ck hook
RemovedCkHook ==
    /\ is_some(hook_outcome)
    /\ unwrap(hook_outcome).op = "uninstall"
    /\ unwrap(hook_outcome).result = "Ok"
    /\ ck_hook(unwrap(dir_before))

DirUnchanged == HooksDir(hook_file, backup_file) = unwrap(dir_before)

\* C30: install_hook without force on a foreign hook returns AlreadyExists,
\* uninstall_hook on a foreign hook returns RemoveFailed, and both leave the
\* hook file and the backup file as they were; uninstall_hook on a missing
\* hook returns Ok and changes nothing.
C30_RefusedChangesNothing ==
    is_some(hook_outcome) =>
        /\ (unwrap(hook_outcome).op = "install" /\ ~unwrap(hook_outcome).force
               /\ foreign_hook(unwrap(dir_before)))
              => (unwrap(hook_outcome).result = "AlreadyExists" /\ DirUnchanged)
        /\ (unwrap(hook_outcome).op = "uninstall" /\ foreign_hook(unwrap(dir_before)))
              => (unwrap(hook_outcome).result = "RemoveFailed" /\ DirUnchanged)
        /\ (unwrap(hook_outcome).op = "uninstall" /\ unwrap(dir_before).hook = None)
              => (unwrap(hook_outcome).result = "Ok" /\ DirUnchanged)
        /\ unwrap(hook_outcome).result \in {"AlreadyExists", "RemoveFailed"} => DirUnchanged

(***************************************************************************)
(* The commands at rest.                                                   *)
(***************************************************************************)
CmdIdle ==
    /\ git_commits = None
    /\ check_call = CheckCall(FALSE, FALSE, FALSE, FALSE)
    /\ check_results = None
    /\ exit_status = None
    /\ call_messages = <<>>
    /\ calls = <<>>
    /\ given = None
    /\ hook_file = None
    /\ backup_file = None
    /\ dir_start = None
    /\ dir_before = None
    /\ hook_outcome = None

(***************************************************************************)
(* Specifications: one per component, the other components at rest.        *)
(***************************************************************************)
InitCategorize ==
    /\ path \in Paths
    /\ category = "Unset"
    /\ RuleIdle
    /\ ParseIdle
    /\ InferIdle
    /\ CtxIdle
    /\ CmdIdle

SpecCategorize == InitCategorize /\ [][NextCategorize]_vars

InitRules ==
    /\ config \in Configs
    /\ custom_rules = <<>>
    /\ message = None
    /\ result = None
    /\ CatIdle
    /\ ParseIdle
    /\ InferIdle
    /\ CtxIdle
    /\ CmdIdle

SpecRules == InitRules /\ [][NextRules]_vars

InitParse ==
    /\ text \in Texts
    /\ parsed = Pending
    /\ formatted = None
    /\ reparsed = Pending
    /\ reformatted = None
    /\ CatIdle
    /\ RuleIdle
    /\ InferIdle
    /\ CtxIdle
    /\ CmdIdle

SpecParse == InitParse /\ [][NextParse]_vars

InitInfer ==
    /\ diff \in Diffs
    /\ analysis = None
    /\ scores = None
    /\ inferred = None
    /\ ipc = "start"
    /\ CatIdle
    /\ RuleIdle
    /\ ParseIdle
    /\ CtxIdle
    /\ CmdIdle

SpecInfer == InitInfer /\ [][NextInfer]_vars

InitScope ==
    /\ staged_files \in ScopeFileLists
    /\ \E su \in ScopeSetups :
          /\ ck_config = su[1]
          /\ marker_dirs = su[2]
          /\ resolver = su[3]
    /\ packages = <<>>
    /\ suggested_scope = None
    /\ resolved = None
    /\ multi_package = None
    /\ warnings = None
    /\ branch = None
    /\ branch_rules = <<>>
    /\ cpc = "start"
    /\ CatIdle
    /\ RuleIdle
    /\ ParseIdle
    /\ InferIdle
    /\ CmdIdle

SpecScope == InitScope /\ [][NextScope]_vars

InitWarn ==
    /\ staged_files \in WarnFileLists
    /\ \E st \in WarnStats : diff = WarnDiff(staged_files, st)
    /\ analysis = None
    /\ scores = None
    /\ inferred = None
    /\ ipc = "idle"
    /\ packages \in WarnPackages
    /\ ck_config \in WarnConfigs
    /\ marker_dirs = {}
    /\ suggested_scope = None
    /\ resolver = ScopeResolver(<<>>, <<"r", "o", "o", "t">>)
    /\ resolved = None
    /\ multi_package = None
    /\ warnings = None
    /\ branch = None
    /\ branch_rules = <<>>
    /\ cpc = "warn"
    /\ CatIdle
    /\ RuleIdle
    /\ ParseIdle
    /\ CmdIdle

SpecWarn == InitWarn /\ [][NextWarn]_vars

InitBranch ==
    /\ ck_config \in BranchConfigs
    /\ branch \in BranchNames
    /\ branch_rules = <<>>
    /\ staged_files = <<>>
    /\ marker_dirs = {}
    /\ packages = <<>>
    /\ suggested_scope = None
    /\ resolver = ScopeResolver(<<>>, <<"r", "o", "o", "t">>)
    /\ resolved = None
    /\ multi_package = None
    /\ warnings = None
    /\ cpc = "branch"
    /\ CatIdle
    /\ RuleIdle
    /\ ParseIdle
    /\ InferIdle
    /\ CmdIdle

SpecBranch == InitBranch /\ [][NextBranch]_vars

InitCheck ==
    /\ config \in CheckConfigs
    /\ custom_rules = <<>>
    /\ message = None
    /\ result = None
    /\ check_call \in CheckCalls
    /\ git_commits \in (IF check_call.range THEN RangeAnswers ELSE CommitAnswers)
    /\ check_results = None
    /\ exit_status = None
    /\ call_messages = <<>>
    /\ calls = <<>>
    /\ given = None
    /\ hook_file = None
    /\ backup_file = None
    /\ dir_start = None
    /\ dir_before = None
    /\ hook_outcome = None
    /\ CatIdle
    /\ ParseIdle
    /\ InferIdle
    /\ CtxIdle

SpecCheck == InitCheck /\ [][NextCheck]_vars

InitValidate ==
    /\ config \in CheckConfigs
    /\ custom_rules \in RuleLists
    /\ message = None
    /\ result = None
    /\ call_messages \in [1..MaxCalls -> CallMessages]
    /\ calls = [t \in 1..MaxCalls |-> NotCalled]
    /\ given = Some(Given(config, custom_rules, call_messages))
    /\ git_commits = None
    /\ check_call = CheckCall(FALSE, FALSE, FALSE, FALSE)
    /\ check_results = None
    /\ exit_status = None
    /\ hook_file = None
    /\ backup_file = None
    /\ dir_start = None
    /\ dir_before = None
    /\ hook_outcome = None
    /\ CatIdle
    /\ ParseIdle
    /\ InferIdle
    /\ CtxIdle

SpecValidate == InitValidate /\ [][NextValidate]_vars

\* the hook manager on a hooks directory as it is found
InitHooks ==
    /\ hook_file \in HookFiles
    /\ backup_file \in HookFiles
    /\ dir_start = Some(HooksDir(hook_file, backup_file))
    /\ dir_before = None
    /\ hook_outcome = None
    /\ git_commits = None
    /\ check_call = CheckCall(FALSE, FALSE, FALSE, FALSE)
    /\ check_results = None
    /\ exit_status = None
    /\ call_messages = <<>>
    /\ calls = <<>>
    /\ given = None
    /\ CatIdle
    /\ RuleIdle
    /\ ParseIdle
    /\ InferIdle
    /\ CtxIdle

SpecHooks == InitHooks /\ [][NextHooks]_vars

====
